---- MODULE Spec2Model ----
(***************************************************************************)
(* A model of the J.A.R.V.I.S backend's streaming pipeline:                *)
(*   - the sentence segmenter (_split_sentences, _merge_short),            *)
(*   - the stream coordinator and speech dispatcher (_stream_generator),   *)
(*   - the retry wrapper (with_retry),                                     *)
(*   - the credential fallback (_invoke_llm, get_response, _stream_llm).   *)
(*                                                                         *)
(* Text is a sequence of characters.  A character is a record [k, p]:      *)
(* k is its class ("w" a letter, "." one of . ! ? , ; : and " " white      *)
(* space) and p is its position in the concatenation of the text deltas    *)
(* the upstream iterator produced (0 for a blank the code itself inserts   *)
(* when it joins two pieces).  The code only ever looks at k; p records    *)
(* where a character came from, so that loss, duplication and reordering   *)
(* of text are visible.                                                    *)
(***************************************************************************)
EXTENDS Integers, Sequences, FiniteSets, TLC

VARIABLES
    \* ---- _stream_generator (src/app/main.py) ----
    pc,           \* position of the generator
    tts_enabled,  \* the tts_enabled argument
    events,       \* every event yielded so far, in order
    buffer,       \* the segmenter's unterminated tail
    held,         \* the held sentence (<<>> models None: the code tests truthiness)
    is_first,     \* no sentence has been submitted yet
    audio_queue,  \* the FIFO list of (future, sentence): indices into jobs
    jobs,         \* every synthesis job submitted, in submission order
    flush_i,      \* position of the final loop "for fut, sent in audio_queue"
    deltas,       \* the text deltas the upstream iterator has produced
    consumed,     \* number of items pulled from the upstream iterator
    upstream,     \* the upstream iterator: live, exhausted, or raised (with
                  \* str(e)), and the payload its web search returned
    \* ---- the upstream model calls (src/app/services/groq_service.py,
    \*      src/app/utils/retry.py) ----
    entry,        \* the function the caller entered
    provider,     \* what the provider answers for each credential 0..n-1
    retry,        \* the frame of with_retry
    invoke,       \* the frame of GroqService._invoke_llm
    getresp,      \* the frame of GroqService.get_response
    sllm,         \* the frame of GroqService._stream_llm
    http,         \* the outcome of the /chat endpoint (src/app/main.py)
    search,       \* the frame of RealtimeGroqService.search_tavily
    \* ---- the segmenter as a function (src/app/main.py) ----
    seg,          \* one application of _split_sentences and its result
    \* ---- ChatService (src/app/services/chat_service.py) ----
    sessions,     \* self.sessions: the in-memory registry
    disk,         \* the files of CHATS_DATA_DIR
    chat,         \* the request in progress
    streams       \* the streamed requests being served at the same time

genVars == <<pc, tts_enabled, events, buffer, held, is_first, audio_queue,
             jobs, flush_i, deltas, consumed, upstream>>

llmVars == <<entry, provider, retry, invoke, getresp, sllm, http, search>>

segVars == <<seg>>

chatVars == <<sessions, disk, chat, streams>>

vars == <<pc, tts_enabled, events, buffer, held, is_first, audio_queue,
          jobs, flush_i, deltas, consumed, upstream,
          entry, provider, retry, invoke, getresp, sllm, http, search,
          seg, sessions, disk, chat, streams>>

-----------------------------------------------------------------------------
(* Bounds of the model.                                                    *)

MaxDeltas == 3      \* text deltas per stream

-----------------------------------------------------------------------------
(* Characters and strings.                                                 *)

W  == "w"
DOT == "."
WS == " "

\* The blank of  pending + " " + s  and  held + " " + sentences[0].
SP == [k |-> WS, p |-> 0]

IsWs(c) == c.k = WS
IsPunct(c) == c.k = DOT

\* The delta with the characters of shape, placed after base characters.
Tag(shape, base) == [i \in 1..Len(shape) |-> [k |-> shape[i], p |-> base + i]]

Min(S) == CHOOSE x \in S : \A y \in S : x <= y
Max(S) == CHOOSE x \in S : \A y \in S : x >= y

\* str.strip()
Strip(s) ==
    LET nonws == {i \in 1..Len(s) : ~IsWs(s[i])}
    IN IF nonws = {} THEN <<>> ELSE SubSeq(s, Min(nonws), Max(nonws))

\* len(s.split()): the number of maximal runs of non-blank characters.
WordCount(s) ==
    Cardinality({i \in 1..Len(s) : ~IsWs(s[i]) /\ (i = 1 \/ IsWs(s[i-1]))})

\* The characters of s that are not white space, in order.
NonWs(s) == SelectSeq(s, LAMBDA c : ~IsWs(c))

RECURSIVE Concat(_)
Concat(ss) == IF ss = <<>> THEN <<>> ELSE Head(ss) \o Concat(Tail(ss))

-----------------------------------------------------------------------------
(* The segmenter.                                                          *)

MIN_WORDS_FIRST == 2
MIN_WORDS == 3
MERGE_IF_WORDS == 2

\* _SPLIT_RE.split(buf): cut at every run of white space that directly
\* follows a punctuation character; the run itself is dropped.
RECURSIVE SplitRe(_)
SplitRe(s) ==
    LET seps == {i \in 2..Len(s) : IsWs(s[i]) /\ IsPunct(s[i-1])}
    IN IF seps = {} THEN <<s>>
       ELSE LET i == Min(seps)
                nonws == {j \in i..Len(s) : ~IsWs(s[j])}
                next == IF nonws = {} THEN Len(s) + 1 ELSE Min(nonws)
            IN <<SubSeq(s, 1, i - 1)>> \o SplitRe(SubSeq(s, next, Len(s)))

\* The loop "for s in raw" of _split_sentences.
RECURSIVE SplitLoop(_, _, _)
SplitLoop(raw, sentences, pending) ==
    IF raw = <<>> THEN [sentences |-> sentences, pending |-> pending]
    ELSE LET s == IF pending # <<>> THEN Strip(pending \o <<SP>> \o Head(raw))
                  ELSE Head(raw)
             min_req == IF sentences = <<>> THEN MIN_WORDS_FIRST ELSE MIN_WORDS
         IN IF WordCount(s) < min_req
            THEN SplitLoop(Tail(raw), sentences, s)
            ELSE SplitLoop(Tail(raw), Append(sentences, s), <<>>)

\* Remaining with the held fragment forgotten.
RemainingWithoutPending(pending, last) == Strip(last)

\* The remainder _split_sentences returns.
Remaining(pending, last) ==
    IF pending # <<>> THEN pending \o <<SP>> \o Strip(last) ELSE Strip(last)

SplitSentences(buf) ==
    LET parts == SplitRe(buf)
    IN IF Len(parts) <= 1 THEN [sentences |-> <<>>, remaining |-> buf]
       ELSE LET stripped == [i \in 1..(Len(parts) - 1) |-> Strip(parts[i])]
                raw == SelectSeq(stripped, LAMBDA p : p # <<>>)
                r == SplitLoop(raw, <<>>, <<>>)
            IN [sentences |-> r.sentences,
                remaining |-> Remaining(r.pending, parts[Len(parts)])]

\* _merge_short: the sentences from index i on, cur being built from index i.
RECURSIVE MergeFrom(_, _)
MergeFrom(sentences, i) ==
    IF i > Len(sentences) THEN <<>>
    ELSE LET long == {j \in (i+1)..Len(sentences) :
                         WordCount(sentences[j]) > MERGE_IF_WORDS}
             j == IF long = {} THEN Len(sentences) + 1 ELSE Min(long)
             RECURSIVE Glue(_, _)
             Glue(cur, k) == IF k >= j THEN cur
                             ELSE Glue(Strip(cur \o <<SP>> \o sentences[k]), k + 1)
         IN <<Glue(sentences[i], i + 1)>> \o MergeFrom(sentences, j)

MergeShort(sentences) == MergeFrom(sentences, 1)

-----------------------------------------------------------------------------
(* The events of the stream (src/app/main.py, _stream_generator).  keys is *)
(* the set of keys of the JSON object; a field whose key is absent holds   *)
(* a filler value.  audio is the synthesis job whose bytes the event       *)
(* carries.                                                                *)

SESSION == "s1"

Event(kind, keys, sid, chunk, done, error, sentence, audio) ==
    [kind |-> kind, keys |-> keys, session_id |-> sid, chunk |-> chunk,
     done |-> done, error |-> error, sentence |-> sentence, audio |-> audio]

\* OpenEvent without the session identifier.
OpenEventNoSession(sid) ==
    Event("chunk", {"chunk", "done"}, "", <<>>, FALSE, "", <<>>, 0)

OpenEvent(sid) ==
    Event("open", {"session_id", "chunk", "done"}, sid, <<>>, FALSE, "", <<>>, 0)

\* ChunkEvent with the delta stripped of surrounding white space.
ChunkEventStripped(chunk) ==
    Event("chunk", {"chunk", "done"}, "", Strip(chunk), FALSE, "", <<>>, 0)

ChunkEvent(chunk) ==
    Event("chunk", {"chunk", "done"}, "", chunk, FALSE, "", <<>>, 0)

SearchEvent ==
    Event("search_results", {"search_results"}, "", <<>>, FALSE, "", <<>>, 0)

AudioEvent(j, sent) ==
    Event("audio", {"audio", "sentence"}, "", <<>>, FALSE, "", sent, j)

TerminalError(msg) ==
    Event("error", {"chunk", "done", "error"}, "", <<>>, TRUE, msg, <<>>, 0)

TerminalDone(sid) ==
    Event("done", {"chunk", "done", "session_id"}, sid, <<>>, TRUE, "", <<>>, 0)

-----------------------------------------------------------------------------
(* The speech dispatcher.  A job is [text, st, cancel_req, fate, finished]: *)
(* st is the state of its future ("pending": queued in the pool or         *)
(* running), cancel_req whether fut.cancel() was called on it; fate (what  *)
(* the generator did with it) and finished (k when it was the k-th job of  *)
(* the stream to finish, 0 before) are history only.                       *)

NewJob(text) ==
    [text |-> text, st |-> "pending", cancel_req |-> FALSE, fate |-> "queued",
     finished |-> 0]

\* fut.done()
FutDone(job) == job.st \in {"ok", "failed", "cancelled"}

\* _submit: the queue and the jobs after submitting text.
Submit(text, q, js) ==
    IF Strip(text) = <<>> THEN [queue |-> q, jobs |-> js]
    ELSE [queue |-> Append(q, Len(js) + 1), jobs |-> Append(js, NewJob(text))]

RECURSIVE SubmitAll(_, _, _)
SubmitAll(texts, q, js) ==
    IF texts = <<>> THEN [queue |-> q, jobs |-> js]
    ELSE LET r == Submit(Head(texts), q, js)
         IN SubmitAll(Tail(texts), r.queue, r.jobs)

\* NextReady taking the first finished job wherever it stands in the queue.
NextReadyAnyDone(q, js) ==
    LET ready == {i \in 1..Len(q) : FutDone(js[q[i]])}
    IN IF ready = {} THEN 0 ELSE Min(ready)

\* The position in the queue of the job _drain_ready pops next (0: stop):
\* "while audio_queue and audio_queue[0][0].done()".
NextReady(q, js) == IF q # <<>> /\ FutDone(js[q[1]]) THEN 1 ELSE 0

Remove(q, i) == SubSeq(q, 1, i - 1) \o SubSeq(q, i + 1, Len(q))

\* _drain_ready
RECURSIVE DrainReady(_, _, _)
DrainReady(q, js, evs) ==
    LET i == NextReady(q, js)
    IN IF i = 0 THEN [events |-> evs, queue |-> q, jobs |-> js]
       ELSE LET j == q[i]
            IN IF js[j].st = "ok"
               THEN DrainReady(Remove(q, i), [js EXCEPT ![j].fate = "emitted"],
                               Append(evs, AudioEvent(j, js[j].text)))
               ELSE DrainReady(Remove(q, i), [js EXCEPT ![j].fate = "dropped"], evs)

-----------------------------------------------------------------------------
(* The stream coordinator.                                                 *)

\* "if held and sentences and len(sentences[0].split()) <= _MERGE_IF_WORDS"
MergesIntoHeldNever(h, sentences) == FALSE

MergesIntoHeld(h, sentences) ==
    h # <<>> /\ sentences # <<>> /\ WordCount(sentences[1]) <= MERGE_IF_WORDS

\* The loop "for i, sent in enumerate(sentences)": the held sentence, the
\* first-sentence flag, the texts passed to _submit and the sentences the
\* "continue" skipped.
RECURSIVE CoordLoop(_, _, _, _, _, _)
CoordLoop(sentences, i, h, first, submits, skipped) ==
    IF i > Len(sentences)
    THEN [held |-> h, is_first |-> first, submits |-> submits, skipped |-> skipped]
    ELSE LET sent == sentences[i]
             min_w == IF first THEN MIN_WORDS_FIRST ELSE MIN_WORDS
             is_last == (i = Len(sentences))
             subs1 == IF h # <<>> THEN Append(submits, h) ELSE submits
             first1 == IF h # <<>> THEN FALSE ELSE first
         IN IF WordCount(sent) < min_w
            THEN CoordLoop(sentences, i + 1, h, first, submits, Append(skipped, sent))
            ELSE IF is_last
                 THEN CoordLoop(sentences, i + 1, sent, first1, subs1, skipped)
                 ELSE CoordLoop(sentences, i + 1, <<>>, FALSE, Append(subs1, sent), skipped)

\* Feed that submits the last sentence of the batch instead of holding it.
FeedNoHold(buf, h, first, chunk) ==
    LET sp == SplitSentences(buf \o chunk)
        r == CoordLoop(MergeShort(sp.sentences), 1, h, first, <<>>, <<>>)
    IN [buffer |-> sp.remaining, held |-> <<>>, is_first |-> r.is_first,
        submits |-> IF r.held # <<>> THEN Append(r.submits, r.held) ELSE r.submits,
        skipped |-> r.skipped]

\* Lines 336-360: what one text delta does to the segmenter state.
Feed(buf, h, first, chunk) ==
    LET sp == SplitSentences(buf \o chunk)
        ms == MergeShort(sp.sentences)
        merge == MergesIntoHeld(h, ms)
        h1 == IF merge THEN Strip(h \o <<SP>> \o ms[1]) ELSE h
        rest == IF merge THEN Tail(ms) ELSE ms
        r == CoordLoop(rest, 1, h1, first, <<>>, <<>>)
    IN [buffer |-> sp.remaining, held |-> r.held, is_first |-> r.is_first,
        submits |-> r.submits, skipped |-> r.skipped]

\* FlushSubmits that never joins the remainder to the held sentence.
FlushSubmitsNoMerge(h, buf) ==
    LET remaining == Strip(buf)
    IN (IF h # <<>> THEN <<h>> ELSE <<>>) \o
       (IF remaining # <<>> THEN <<remaining>> ELSE <<>>)

\* JoinsRemainder never joining.
JoinsRemainderNever(remaining) == FALSE

\* Line 372: "if remaining and len(remaining.split()) <= _MERGE_IF_WORDS".
JoinsRemainder(remaining) ==
    remaining # <<>> /\ WordCount(remaining) <= MERGE_IF_WORDS

\* Lines 368-379: the texts passed to _submit when the stream ends normally.
FlushSubmits(h, buf) ==
    LET remaining == Strip(buf)
    IN IF h # <<>>
       THEN IF JoinsRemainder(remaining)
            THEN <<Strip(h \o <<SP>> \o remaining)>>
            ELSE IF remaining # <<>> THEN <<h, remaining>> ELSE <<h>>
       ELSE IF remaining # <<>> THEN <<remaining>> ELSE <<>>

\* The except branch without its cancellation loop.
CancelNone(q, js) == js

\* Lines 363-364: "for fut, _ in audio_queue: fut.cancel()".
CancelAll(q, js) ==
    [j \in 1..Len(js) |->
        IF \E i \in 1..Len(q) : q[i] = j
        THEN [js[j] EXCEPT !.cancel_req = TRUE]
        ELSE js[j]]

\* DeltaEvents with the text chunk not yielded.
DeltaEventsAudioOnly(chunk, drained) == drained

\* The events one text delta yields: the text chunk, then the drained audio.
DeltaEvents(chunk, drained) == <<ChunkEvent(chunk)>> \o drained

\* ErrorEvents of an except branch that does not return.
ErrorEventsNoReturn(msg) == <<TerminalError(msg), TerminalDone(SESSION)>>

\* The events the except branch yields.
ErrorEvents(msg) == <<TerminalError(msg)>>

-----------------------------------------------------------------------------
(* The upstream iterator of _stream_generator: it produces text deltas and *)
(* side-channel dicts, and then either ends or raises.                     *)

\* The deltas the upstream may produce, as character classes:
\*   "w "  "w. "  "w."  " w w"  "w w. w w w. "
DeltaShapes ==
    { <<W, WS>>, <<W, DOT, WS>>, <<W, DOT>>, <<WS, W, WS, W>>,
      <<W, WS, W, DOT, WS, W, WS, W, WS, W, DOT, WS>> }

\* str(e) of the exception the upstream raises.
ALL_APIS_FAILED_MESSAGE ==
    "I'm unable to process your request at the movement. All API services aretemporarily unavailable. Please Try again in a few minutes"
UpstreamErrors ==
    {ALL_APIS_FAILED_MESSAGE, "Error streaming response from Groq: Connection error"}

SearchCount == Cardinality({i \in 1..Len(events) : events[i].kind = "search_results"})

\* The payload search_tavily returned to the upstream: None (<<>>), always so
\* for the general stream, which does not search, or a dict (realtime_service.py
\* lines 127-139, 213).
NoPayload == <<>>
UpstreamPayloads == {NoPayload, <<[query |-> "q", results |-> 1]>>}

\* The upstream yielding the dict whatever the payload.
YieldsSearchResultsAlways(payload) == TRUE

\* realtime_service.py line 219: if payload.
YieldsSearchResults(payload) == payload # NoPayload

\* The dict, when there is one, is the first item of the upstream
\* (realtime_service.py lines 219-227).
SearchYielded == YieldsSearchResults(upstream.payload) => SearchCount = 1

GenInit ==
    /\ pc = "start"
    /\ tts_enabled \in BOOLEAN
    /\ events = <<>>
    /\ buffer = <<>>
    /\ held = <<>>
    /\ is_first = TRUE
    /\ audio_queue = <<>>
    /\ jobs = <<>>
    /\ flush_i = 0
    /\ deltas = <<>>
    /\ consumed = 0
    /\ \E p \in UpstreamPayloads :
         upstream = [state |-> "live", error |-> "", payload |-> p]

\* Line 298: the open event, before the upstream is touched.
Open ==
    /\ pc = "start"
    /\ events' = Append(events, OpenEvent(SESSION))
    /\ pc' = "streaming"
    /\ UNCHANGED <<tts_enabled, buffer, held, is_first, audio_queue, jobs,
                   flush_i, deltas, consumed, upstream>>
    /\ UNCHANGED <<llmVars, segVars, chatVars>>

\* The text of the session's assistant turn: the upstream of a stream is
\* ChatService.process_message_stream or process_realtime_message_stream,
\* which adds each text delta to the turn before it yields it
\* (chat_service.py lines 156, 187) and passes a dict on without adding
\* anything (lines 184-186).
AssistantContent == Concat(deltas)

\* SideChannel without the "continue": the dict goes on to the speech path,
\* which drains the ready jobs and puts a blank into the buffer.
SideChannelFallsThrough ==
    /\ pc = "streaming"
    /\ YieldsSearchResults(upstream.payload)
    /\ SearchCount = 0
    /\ deltas = <<>>
    /\ LET d == DrainReady(audio_queue, jobs, <<>>)
       IN /\ events' = Append(events, SearchEvent) \o d.events
          /\ audio_queue' = d.queue
          /\ jobs' = d.jobs
    /\ buffer' = IF tts_enabled THEN buffer \o <<SP>> ELSE buffer
    /\ consumed' = consumed + 1
    /\ UNCHANGED <<pc, tts_enabled, held, is_first, flush_i, deltas, upstream>>
    /\ UNCHANGED <<llmVars, segVars, chatVars>>

\* Lines 324-326: the upstream produces a dict carrying _search_results.
\* RealtimeGroqService.stream_response, the only producer of such a dict,
\* yields it when the search returned a payload, once, before the first text
\* delta (realtime_service.py lines 219-220, passed on by chat_service.py
\* 184-186).
SideChannel ==
    /\ pc = "streaming"
    /\ YieldsSearchResults(upstream.payload)
    /\ SearchCount = 0
    /\ deltas = <<>>
    /\ events' = Append(events, SearchEvent)
    /\ consumed' = consumed + 1
    /\ UNCHANGED <<pc, tts_enabled, buffer, held, is_first, audio_queue, jobs,
                   flush_i, deltas, upstream>>
    /\ UNCHANGED <<llmVars, segVars, chatVars>>

\* The speech path taken whatever the request asked for.
SpeechRequestedAlways(tts) == TRUE

\* Lines 330-331: "if not tts_enabled: continue".
SpeechRequested(tts) == tts

\* Lines 328-360: the upstream produces a text delta.
TextDelta ==
    /\ pc = "streaming"
    /\ SearchYielded
    /\ Len(deltas) < MaxDeltas
    /\ \E shape \in DeltaShapes :
         LET chunk == Tag(shape, Len(Concat(deltas)))
         IN /\ deltas' = Append(deltas, chunk)
            /\ consumed' = consumed + 1
            /\ IF ~SpeechRequested(tts_enabled)
               THEN /\ events' = events \o DeltaEvents(chunk, <<>>)
                    /\ UNCHANGED <<buffer, held, is_first, audio_queue, jobs>>
               ELSE LET d == DrainReady(audio_queue, jobs, <<>>)
                        f == Feed(buffer, held, is_first, chunk)
                        s == SubmitAll(f.submits, d.queue, d.jobs)
                    IN /\ events' = events \o DeltaEvents(chunk, d.events)
                       /\ buffer' = f.buffer
                       /\ held' = f.held
                       /\ is_first' = f.is_first
                       /\ audio_queue' = s.queue
                       /\ jobs' = s.jobs
    /\ UNCHANGED <<pc, tts_enabled, flush_i, upstream>>
    /\ UNCHANGED <<llmVars, segVars, chatVars>>

\* Lines 362-366: the upstream raises.  fut.cancel() is called on every job
\* of the queue; whether the pool had already started the job decides
\* whether it still runs, and nobody reads the future afterwards.
UpstreamRaises ==
    /\ pc = "streaming"
    /\ SearchYielded
    /\ \E msg \in UpstreamErrors :
         /\ upstream' = [upstream EXCEPT !.state = "raised", !.error = msg]
         /\ events' = events \o ErrorEvents(msg)
    /\ jobs' = CancelAll(audio_queue, jobs)
    /\ pc' = "done"
    /\ UNCHANGED <<tts_enabled, buffer, held, is_first, audio_queue, flush_i,
                   deltas, consumed>>
    /\ UNCHANGED <<llmVars, segVars, chatVars>>

\* Lines 368-379: the upstream is exhausted; the flush submits what is left.
UpstreamEnds ==
    /\ pc = "streaming"
    /\ SearchYielded
    /\ LET s == IF tts_enabled
                THEN SubmitAll(FlushSubmits(held, buffer), audio_queue, jobs)
                ELSE [queue |-> audio_queue, jobs |-> jobs]
       IN /\ audio_queue' = s.queue
          /\ jobs' = s.jobs
    /\ pc' = "flushing"
    /\ flush_i' = 1
    /\ upstream' = [upstream EXCEPT !.state = "exhausted"]
    /\ UNCHANGED <<tts_enabled, events, buffer, held, is_first, deltas, consumed>>
    /\ UNCHANGED <<llmVars, segVars, chatVars>>

\* One turn of the final loop without its try/except: a job that is not
\* done with its audio ends the stream with the error event.
FlushJobRaises ==
    /\ pc = "flushing"
    /\ flush_i <= Len(audio_queue)
    /\ LET j == audio_queue[flush_i]
       IN IF jobs[j].st = "ok"
          THEN /\ events' = Append(events, AudioEvent(j, jobs[j].text))
               /\ jobs' = [jobs EXCEPT ![j].fate = "emitted"]
               /\ pc' = pc
          ELSE /\ events' = Append(events, TerminalError("synthesis failed"))
               /\ jobs' = [jobs EXCEPT ![j].fate = "dropped"]
               /\ pc' = "done"
    /\ flush_i' = flush_i + 1
    /\ UNCHANGED <<tts_enabled, buffer, held, is_first, audio_queue,
                   deltas, consumed, upstream>>
    /\ UNCHANGED <<llmVars, segVars, chatVars>>

\* ResultEnds waiting for the job without a timeout.
ResultEndsWhenJobDone(st) == st # "pending"

\* Line 383: fut.result(timeout=15) ends whatever the state of the job: with
\* the audio, with the job's exception, or with TimeoutError after 15 s.
ResultEnds(st) == st \in {"ok", "failed", "pending"}

\* Lines 381-387: one turn of the final loop.  fut.result(timeout=15) returns
\* the audio, re-raises the job's failure, or times out on a pending job.
FlushJob ==
    /\ pc = "flushing"
    /\ flush_i <= Len(audio_queue)
    /\ ResultEnds(jobs[audio_queue[flush_i]].st)
    /\ LET j == audio_queue[flush_i]
       IN IF jobs[j].st = "ok"
          THEN /\ events' = Append(events, AudioEvent(j, jobs[j].text))
               /\ jobs' = [jobs EXCEPT ![j].fate = "emitted"]
          ELSE /\ events' = events
               /\ jobs' = [jobs EXCEPT ![j].fate = "dropped"]
    /\ flush_i' = flush_i + 1
    /\ UNCHANGED <<pc, tts_enabled, buffer, held, is_first, audio_queue,
                   deltas, consumed, upstream>>
    /\ UNCHANGED <<llmVars, segVars, chatVars>>

\* Line 389: the terminal event of a stream that did not fail.
Finish ==
    /\ pc = "flushing"
    /\ flush_i > Len(audio_queue)
    /\ events' = Append(events, TerminalDone(SESSION))
    /\ pc' = "done"
    /\ UNCHANGED <<tts_enabled, buffer, held, is_first, audio_queue, jobs,
                   flush_i, deltas, consumed, upstream>>
    /\ UNCHANGED <<llmVars, segVars, chatVars>>

\* The client disconnects: the transport closes the generator, which is
\* suspended at a yield of lines 298-387, and GeneratorExit is raised there.
\* GeneratorExit is not an Exception, so "except Exception" (line 362) does
\* not catch it, and the function has no finally clause: the generator just
\* ends, with its queue and its jobs as they are.  The disconnection is
\* followed while the upstream is being consumed (the yields of lines 298,
\* 325, 328 and 334); one during the final loop meets the same code.
ClientDisconnects ==
    /\ pc = "streaming"
    /\ pc' = "closed"
    /\ UNCHANGED <<tts_enabled, events, buffer, held, is_first, audio_queue,
                   jobs, flush_i, deltas, consumed, upstream>>
    /\ UNCHANGED <<llmVars, segVars, chatVars>>

\* A worker of _tts_pool finishes _generate_tts_sync for a job, with the
\* audio or with an exception.  While streaming any queued job may finish
\* (_drain_ready polls them); in the final loop the generator blocks on
\* one future at a time, so only the completion of the job it is waiting
\* for is followed: a later job that finishes meanwhile is seen exactly as
\* if it finished when its turn comes, and no other future is read again.
JobCompletes ==
    /\ pc \in {"streaming", "flushing"}
    /\ \E i \in 1..Len(audio_queue) : \E st \in {"ok", "failed"} :
         /\ pc = "flushing" => i = flush_i
         /\ jobs[audio_queue[i]].st = "pending"
         /\ jobs' = [jobs EXCEPT ![audio_queue[i]].st = st,
                                 ![audio_queue[i]].finished =
                                    1 + Cardinality({j \in 1..Len(jobs) : jobs[j].finished > 0})]
    /\ UNCHANGED <<pc, tts_enabled, events, buffer, held, is_first, audio_queue,
                   flush_i, deltas, consumed, upstream>>
    /\ UNCHANGED <<llmVars, segVars, chatVars>>

-----------------------------------------------------------------------------
(* Exceptions and results of the upstream model calls.  An exception is    *)
(* [type, msg, at, cause]: at is the call that raised it (0 when that does *)
(* not matter) and cause is <<>> or the one exception it was raised from.  *)

MaxKeys == 3        \* configured credentials
MaxRetries == 4     \* max_retries of a direct with_retry call
MaxChunks == 2      \* chunks one credential's stream produces

Exc(type, msg, at, cause) == [type |-> type, msg |-> msg, at |-> at, cause |-> cause]

RATE_LIMIT_MSG == "Error code: 429 - rate limit reached"
OTHER_MSG == "Connection error"
ProviderMsgs == {RATE_LIMIT_MSG, OTHER_MSG}

\* _is_rate_limit_error, on the messages of the model.
IsRateLimitError(e) == e.msg = RATE_LIMIT_MSG

\* The outcome of one call: a value or an exception.
Returns(val) == [ok |-> TRUE, val |-> val, exc |-> <<>>]
Raises(e) == [ok |-> FALSE, val |-> <<>>, exc |-> <<e>>]

\* The attributes GroqService.__init__ sets (lines 60-69).
GroqServiceAttrs == {"llms", "vector_store_service"}

\* The attribute _invoke_with_key reads (line 90).
InvokeLlmAttr == "llm"

\* chain.invoke for credential i: the provider's answer.
ProviderCall(i, k) ==
    IF provider[i + 1] = "ok" THEN Returns(<<"content", i>>)
    ELSE Raises(Exc("ProviderError", provider[i + 1], k, <<>>))

\* Line 90 is passed and line 92 (chain.invoke) is reached.
ReachesProvider == InvokeLlmAttr \in GroqServiceAttrs

\* _invoke_with_key (lines 88-92), as the k-th call with_retry makes.
InvokeWithKey(i, k) ==
    IF ReachesProvider THEN ProviderCall(i, k)
    ELSE Raises(Exc("AttributeError",
                    "'GroqService' object has no attribute 'llm'", k, <<>>))

\* A result of the search collaborator: well formed, or with a score that
\* float() refuses.
SearchResultKinds == {"good", "bad_score"}

MaxResults == 2     \* results in one search response

\* The responses of tavily_client.search: a dict with "results" and "answer".
SearchResponses ==
    {[results |-> r, answer |-> a] :
        r \in UNION {[1..n -> SearchResultKinds] : n \in 0..MaxResults},
        a \in {"", "answer"}}

\* realtime_service.py lines 109-115: the k-th call of the search lambda.
SearchCall(k) ==
    {Returns(resp) : resp \in SearchResponses} \cup
    {Raises(Exc("SearchError", OTHER_MSG, k, <<>>))}

\* What the k-th call of fn may do.  "fn" is any callable: it returns or
\* raises as it likes.
FnOutcomes(fn, i, k) ==
    IF fn = "_invoke_with_key" THEN {InvokeWithKey(i, k)}
    ELSE IF fn = "tavily_search" THEN SearchCall(k)
    ELSE {Returns(<<"result", k>>)} \cup
         {Raises(Exc("ProviderError", m, k, <<>>)) : m \in ProviderMsgs}

-----------------------------------------------------------------------------
(* with_retry (src/app/utils/retry.py).  Delays are in milliseconds.       *)

IdleRetry ==
    [pc |-> "idle", fn |-> "", max_retries |-> 0, initial_delay |-> 0,
     attempt |-> 0, delay |-> 0, last_exception |-> <<>>, result |-> <<>>, raised |-> <<>>,
     calls |-> <<>>, sleeps |-> <<>>]

\* The frame on entry: last_exception = None, delay = initial_delay, attempt = 0.
StartRetry(fn, max_retries, initial_delay) ==
    [IdleRetry EXCEPT !.pc = "call", !.fn = fn, !.max_retries = max_retries,
                      !.initial_delay = initial_delay,
                      !.delay = initial_delay]

\* Line 23: "if attempt == max_retries - 1"
RetryExhausted(attempt, max_retries) == attempt = max_retries - 1

\* ReRaise wrapping the exception in a new one.
ReRaiseWrapped(e) == Exc("Exception", "all retries failed", 0, <<e>>)

\* Line 24: the bare "raise" re-raises the exception being handled.
ReRaise(e) == e

\* The calls of _invoke_with_key and of chain.invoke one _invoke_llm has
\* made, by credential.
InvokeCalled(inv) ==
    [inv EXCEPT !.attempts = Append(@, inv.i),
                !.provider_calls = IF ReachesProvider THEN Append(@, inv.i)
                                   ELSE @]

\* Lines 18-24: one turn of the loop up to time.sleep: fn is called.
RetryCall ==
    /\ retry.pc = "call"
    /\ \E o \in FnOutcomes(retry.fn, invoke.i, Len(retry.calls) + 1) :
         retry' =
           IF o.ok
           THEN [retry EXCEPT !.pc = "returned", !.result = o.val,
                              !.calls = Append(@, o)]
           ELSE IF RetryExhausted(retry.attempt, retry.max_retries)
                THEN [retry EXCEPT !.pc = "raised", !.last_exception = o.exc,
                                   !.raised = <<ReRaise(o.exc[1])>>,
                                   !.calls = Append(@, o)]
                ELSE [retry EXCEPT !.pc = "sleep", !.last_exception = o.exc,
                                   !.calls = Append(@, o)]
    /\ invoke' = IF retry.fn = "_invoke_with_key" THEN InvokeCalled(invoke)
                  ELSE invoke
    /\ UNCHANGED <<entry, provider, getresp, sllm>>
    /\ UNCHANGED <<http, search>>
    /\ UNCHANGED <<genVars, segVars, chatVars>>

\* NextDelay keeping the delay as it is.
NextDelaySame(delay) == delay

\* Line 35: delay *= 2
NextDelay(delay) == delay * 2

\* Lines 34-37: time.sleep(delay); delay *= 2; the next turn of the loop, or
\* "raise last_exception" when the range is used up.
RetrySleep ==
    /\ retry.pc = "sleep"
    /\ retry' =
         IF retry.attempt + 1 < retry.max_retries
         THEN [retry EXCEPT !.pc = "call", !.sleeps = Append(@, retry.delay),
                            !.delay = NextDelay(@), !.attempt = @ + 1]
         ELSE [retry EXCEPT !.pc = "raised", !.sleeps = Append(@, retry.delay),
                            !.delay = NextDelay(@), !.raised = retry.last_exception]
    /\ UNCHANGED <<entry, provider, invoke, getresp, sllm>>
    /\ UNCHANGED <<http, search>>
    /\ UNCHANGED <<genVars, segVars, chatVars>>

-----------------------------------------------------------------------------
(* GroqService._invoke_llm and get_response.                               *)

INVOKE_MAX_RETRIES == 2
INVOKE_INITIAL_DELAY == 500

NumKeys == Len(provider)

IdleInvoke ==
    [pc |-> "idle", i |-> 0, last_exc |-> <<>>, keys_tried |-> <<>>,
     result |-> <<>>, raised |-> <<>>, raises |-> 0,
     attempts |-> <<>>, provider_calls |-> <<>>]

IdleGetResp == [pc |-> "idle", result |-> <<>>, raised |-> <<>>]

\* Line 122: raise AllGroqApisFailedError(ALL_APIS_FAILED_MESSAGE) from last_exc
AllFailed(last_exc) ==
    Exc("AllGroqApisFailedError", ALL_APIS_FAILED_MESSAGE, 0, last_exc)

\* InvokeExhausted re-raising the last credential's exception.
InvokeRaisesLast(last_exc) == last_exc[1]

\* What _invoke_llm raises once the loop is over (lines 119-122).
InvokeExhausted(last_exc) == AllFailed(last_exc)

\* Lines 268-271: the except clauses of get_response.
GetResponseHandle(e) ==
    IF e.type = "AllGroqApisFailedError" THEN e
    ELSE Exc("Exception", "Error getting response from Groq", 0, <<e>>)

\* Lines 83-100: the loop takes credential i and calls with_retry.
InvokeNextKey ==
    /\ invoke.pc = "loop"
    /\ invoke' = [invoke EXCEPT !.pc = "with_retry",
                                !.keys_tried = Append(@, invoke.i)]
    /\ retry' = StartRetry("_invoke_with_key", INVOKE_MAX_RETRIES, INVOKE_INITIAL_DELAY)
    /\ UNCHANGED <<entry, provider, getresp, sllm>>
    /\ UNCHANGED <<http, search>>
    /\ UNCHANGED <<genVars, segVars, chatVars>>

\* Lines 102-122: with_retry is back: return the content, fall back to the
\* next credential, or give up.
InvokeAfterRetry ==
    /\ invoke.pc = "with_retry"
    /\ retry.pc \in {"returned", "raised"}
    /\ invoke' =
         IF retry.pc = "returned"
         THEN [invoke EXCEPT !.pc = "returned", !.result = retry.result]
         ELSE IF invoke.i < NumKeys - 1
              THEN [invoke EXCEPT !.pc = "loop", !.last_exc = retry.raised,
                                  !.i = @ + 1]
              ELSE [invoke EXCEPT !.pc = "raised", !.last_exc = retry.raised,
                                  !.raised = <<InvokeExhausted(retry.raised)>>,
                                  !.raises = @ + 1]
    /\ retry' = IdleRetry
    /\ UNCHANGED <<entry, provider, getresp, sllm>>
    /\ UNCHANGED <<http, search>>
    /\ UNCHANGED <<genVars, segVars, chatVars>>

\* Lines 258-264: get_response builds the prompt (which may raise) and calls
\* _invoke_llm.
GetResponseBuild ==
    /\ getresp.pc = "build"
    /\ \E built \in BOOLEAN :
         IF built
         THEN /\ getresp' = [getresp EXCEPT !.pc = "invoke"]
              /\ invoke' = [IdleInvoke EXCEPT !.pc = "loop"]
         ELSE /\ getresp' = [getresp EXCEPT !.pc = "raised",
                    !.raised = <<GetResponseHandle(
                                   Exc("ValueError", "prompt template", 0, <<>>))>>]
              /\ invoke' = invoke
    /\ UNCHANGED <<entry, provider, retry, sllm>>
    /\ UNCHANGED <<http, search>>
    /\ UNCHANGED <<genVars, segVars, chatVars>>

\* Lines 265-271: _invoke_llm is back.
GetResponseEnd ==
    /\ getresp.pc = "invoke"
    /\ invoke.pc \in {"returned", "raised"}
    /\ getresp' =
         IF invoke.pc = "returned"
         THEN [getresp EXCEPT !.pc = "returned", !.result = invoke.result]
         ELSE [getresp EXCEPT !.pc = "raised",
                              !.raised = <<GetResponseHandle(invoke.raised[1])>>]
    /\ UNCHANGED <<entry, provider, retry, invoke, sllm>>
    /\ UNCHANGED <<http, search>>
    /\ UNCHANGED <<genVars, segVars, chatVars>>

\* main.py lines 20-24.
RATE_LIMIT_MESSAGE ==
    "You've reached your daily API limit for this assistant. Your credits will reset in a few hours, or you can upgrade your plan for more. Please try again later."

\* main.py lines 26-29: _is_rate_limit_error looks at str(exc); the message
\* of an exception get_response wrapped ends with the message of its cause.
MainIsRateLimitError(e) ==
    \/ e.msg = RATE_LIMIT_MSG
    \/ e.type = "Exception" /\ e.cause # <<>> /\ e.cause[1].msg = RATE_LIMIT_MSG

\* main.py lines 214-227: the except clauses of the /chat endpoint.
HttpError(e) ==
    IF e.type = "ValueError" THEN [pc |-> "done", status |-> 400, detail |-> e.msg]
    ELSE IF e.type = "AllGroqApisFailedError"
    THEN [pc |-> "done", status |-> 503, detail |-> e.msg]
    ELSE IF MainIsRateLimitError(e)
    THEN [pc |-> "done", status |-> 429, detail |-> RATE_LIMIT_MESSAGE]
    ELSE [pc |-> "done", status |-> 500, detail |-> "Error processing chat"]

\* main.py lines 209-227: get_response (called by process_message) is back
\* and the /chat endpoint answers.
ChatResponds ==
    /\ entry = "get_response"
    /\ getresp.pc \in {"returned", "raised"}
    /\ http.pc = "idle"
    /\ http' = IF getresp.pc = "returned"
               THEN [pc |-> "done", status |-> 200, detail |-> ""]
               ELSE HttpError(getresp.raised[1])
    /\ UNCHANGED <<entry, provider, retry, invoke, getresp, sllm, search>>
    /\ UNCHANGED <<genVars, segVars, chatVars>>

-----------------------------------------------------------------------------
(* RealtimeGroqService.search_tavily (src/app/services/realtime_service.py). *)
(* A text is the sequence of its lines, "" the empty sequence; None is <<>>  *)
(* and a payload p is <<p>>.                                                  *)

SEARCH_MAX_RETRIES == 3
SEARCH_INITIAL_DELAY == 1000

\* ("", None)
EmptyResult == [formatted |-> <<>>, payload |-> <<>>]

\* Lines 127-139: the payload; round(float(score), 2) raises on a bad score.
PayloadRaises(resp) ==
    \E i \in 1..Len(resp.results) : resp.results[i] = "bad_score"

Payload(resp) ==
    [query |-> "q", answer |-> resp.answer,
     results |-> [i \in 1..Len(resp.results) |-> [title |-> "t", score |-> "0.50"]]]

\* Lines 141-159: the formatted text, line by line.
Formatted(resp) ==
    <<"=== WEB SEARCH RESULTS ===">>
    \o (IF resp.answer # "" THEN <<"AI-SYNTHESIZED ANSWER">> ELSE <<>>)
    \o (IF resp.results # <<>> THEN <<"INDIVIDUAL SOURCES:">> ELSE <<>>)
    \o [i \in 1..Len(resp.results) |-> "[Source]"]
    \o <<"=== END SEARCH RESULTS ===">>

\* The except clause letting the exception out.
SearchExceptReraises(e) == [result |-> <<>>, raised |-> <<e>>]

\* Lines 169-172: except Exception: log and return ("", None).
SearchExcept(e) == [result |-> <<EmptyResult>>, raised |-> <<>>]

\* Lines 120-167: the response is turned into (formatted, payload).
SearchBuild(resp) ==
    IF resp.results = <<>> THEN [result |-> <<EmptyResult>>, raised |-> <<>>]
    ELSE IF PayloadRaises(resp)
    THEN SearchExcept(Exc("TypeError", "float() argument", 0, <<>>))
    ELSE [result |-> <<[formatted |-> Formatted(resp), payload |-> <<Payload(resp)>>]>>,
          raised |-> <<>>]

\* Lines 101-118: no client: return ("", None); otherwise call with_retry.
SearchStart ==
    /\ search.pc = "start"
    /\ IF ~search.client
       THEN /\ search' = [search EXCEPT !.pc = "returned", !.result = <<EmptyResult>>]
            /\ retry' = retry
       ELSE /\ search' = [search EXCEPT !.pc = "with_retry"]
            /\ retry' = StartRetry("tavily_search", SEARCH_MAX_RETRIES,
                                   SEARCH_INITIAL_DELAY)
    /\ UNCHANGED <<entry, provider, invoke, getresp, sllm, http>>
    /\ UNCHANGED <<genVars, segVars, chatVars>>

\* Lines 120-172: with_retry is back with a response or an exception.
SearchEnd ==
    /\ search.pc = "with_retry"
    /\ retry.pc \in {"returned", "raised"}
    /\ LET r == IF retry.pc = "returned" THEN SearchBuild(retry.result)
                ELSE SearchExcept(retry.raised[1])
       IN search' = [search EXCEPT
                       !.pc = IF r.raised = <<>> THEN "returned" ELSE "raised",
                       !.attempts = Len(retry.calls),
                       !.failed = (retry.pc = "raised"),
                       !.response = IF retry.pc = "returned"
                                    THEN <<retry.result>> ELSE <<>>,
                       !.result = r.result, !.raised = r.raised]
    /\ retry' = IdleRetry
    /\ UNCHANGED <<entry, provider, invoke, getresp, sllm, http>>
    /\ UNCHANGED <<genVars, segVars, chatVars>>

-----------------------------------------------------------------------------
(* GroqService._stream_llm.  yielded records, for every delta handed to    *)
(* the consumer, the credential it came from and its place k in that       *)
(* credential's stream (a stream always starts at k = 1: every credential  *)
(* is given the whole prompt).                                             *)

IdleSllm ==
    [pc |-> "idle", i |-> 0, chunk_count |-> 0, reads |-> 0, last_exc |-> <<>>,
     yielded |-> <<>>, attempts |-> <<>>, failed |-> <<>>, raised |-> <<>>]

\* StreamFallsBack giving up once the failed stream has yielded a delta.
StreamFallsBackIfNothingYielded(i, n, chunk_count) == i < n - 1 /\ chunk_count = 0

\* Line 176: "if i < n - 1: continue", else break and raise.
StreamFallsBack(i, n, chunk_count) == i < n - 1

\* Lines 146-161: the stream of credential i produces a chunk; a chunk with
\* empty content is not yielded.
SllmChunk ==
    /\ sllm.pc = "streaming"
    /\ sllm.reads < MaxChunks
    /\ \E content \in {"", "text"} :
         sllm' = IF content # ""
                 THEN [sllm EXCEPT !.reads = @ + 1, !.chunk_count = @ + 1,
                          !.yielded = Append(@, [cred |-> sllm.i, k |-> sllm.reads + 1])]
                 ELSE [sllm EXCEPT !.reads = @ + 1]
    /\ UNCHANGED <<entry, provider, retry, invoke, getresp>>
    /\ UNCHANGED <<http, search>>
    /\ UNCHANGED <<genVars, segVars, chatVars>>

\* Lines 169-183: the stream of credential i raises, before or after it has
\* produced chunks.
SllmFails ==
    /\ sllm.pc = "streaming"
    /\ \E m \in ProviderMsgs :
         LET e == Exc("ProviderError", m, sllm.i, <<>>)
         IN sllm' =
              IF StreamFallsBack(sllm.i, NumKeys, sllm.chunk_count)
              THEN [sllm EXCEPT !.i = @ + 1, !.chunk_count = 0, !.reads = 0,
                                !.last_exc = <<e>>,
                                !.attempts = Append(@, sllm.i + 1),
                                !.failed = Append(@, sllm.i)]
              ELSE [sllm EXCEPT !.pc = "raised", !.last_exc = <<e>>,
                                !.failed = Append(@, sllm.i),
                                !.raised = <<AllFailed(<<e>>)>>]
    /\ UNCHANGED <<entry, provider, retry, invoke, getresp>>
    /\ UNCHANGED <<http, search>>
    /\ UNCHANGED <<genVars, segVars, chatVars>>

\* Lines 163-168: the stream of credential i is exhausted: return.
SllmCompletes ==
    /\ sllm.pc = "streaming"
    /\ sllm' = [sllm EXCEPT !.pc = "returned"]
    /\ UNCHANGED <<entry, provider, retry, invoke, getresp>>
    /\ UNCHANGED <<http, search>>
    /\ UNCHANGED <<genVars, segVars, chatVars>>

-----------------------------------------------------------------------------
(* Frames at rest.                                                         *)

IdleHttp == [pc |-> "idle", status |-> 0, detail |-> ""]
IdleSearch ==
    [pc |-> "idle", client |-> FALSE, attempts |-> 0, failed |-> FALSE,
     response |-> <<>>, result |-> <<>>, raised |-> <<>>]

-----------------------------------------------------------------------------
(* ChatService (src/app/services/chat_service.py): session identifiers.    *)
(* An identifier is a sequence of pieces; a piece is one character, the    *)
(* two characters "..", a run of 255 letters, or a generated uuid.         *)

MaxRequests == 2       \* requests served in one run
MaxStreamDeltas == 2   \* text deltas of one streamed response

LONG == "x255"

PieceLen(t) == IF t = LONG THEN 255 ELSE IF t = ".." THEN 2
               ELSE IF t \in {"u1", "u2", "u3", "u4"} THEN 36 ELSE 1

RECURSIVE IdLen(_)
IdLen(id) == IF id = <<>> THEN 0 ELSE PieceLen(Head(id)) + IdLen(Tail(id))

\* "not session_id.strip()"
IsBlankId(id) == \A i \in 1..Len(id) : id[i] = " "

Has(id, t) == \E i \in 1..Len(id) : id[i] = t


\* Lines 49-59: validate_session_id.
ValidateSessionId(id) ==
    /\ id # <<>> /\ ~IsBlankId(id)
    /\ ~(Has(id, "..") \/ Has(id, "/") \/ Has(id, "\\"))
    /\ ~(IdLen(id) > 255)

\* Lines 25-27 and 202-204: session_id.replace("-", "").replace(" ", "_"),
\* which names the file of the session.
SafeSessionId(id) ==
    LET kept == SelectSeq(id, LAMBDA t : t # "-")
    IN [i \in 1..Len(kept) |-> IF kept[i] = " " THEN "_" ELSE kept[i]]

\* str(uuid.uuid4()), for the n-th identifier generated.
Uuid(n) == << <<"u1", "u2", "u3", "u4">>[n] >>

\* The session_id of a request: absent (None) or a string.
NoId == [given |-> FALSE, id |-> <<>>]
GivenId(id) == [given |-> TRUE, id |-> id]

\* The identifiers clients send.
ClientIds ==
    { <<>>, <<" ">>, <<"a", "b">>, <<"a", "-", "b">>, <<LONG>>, <<LONG, "a">>,
      <<"..">>, <<"a", "/", "b">>, <<"\\">> }

RequestIds == {NoId} \cup {GivenId(id) : id \in ClientIds}

-----------------------------------------------------------------------------
(* ChatService: the registry, the files, and the methods.  A method is an  *)
(* operator on the world w = [sessions, disk, access]: access is the log   *)
(* of the registry and file accesses made while serving the request.       *)

NoSessions == <<>>
NoFiles == <<>>

Put(f, k, v) == [x \in (DOMAIN f) \cup {k} |-> IF x = k THEN v ELSE f[x]]

ChatMessage(role, content) == [role |-> role, content |-> content]

Access(kind, key) == [kind |-> kind, key |-> key]
Log(w, kind, key) == [w EXCEPT !.access = Append(@, Access(kind, key))]

\* Lines 89-93: add_message.
AddMessage(w, sid, role, content) ==
    LET w1 == Log(w, "mem_read", sid)
        cur == IF sid \in DOMAIN w.sessions THEN w.sessions[sid] ELSE <<>>
        w2 == Log(w1, "mem_write", sid)
    IN [w2 EXCEPT !.sessions = Put(w.sessions, sid,
                                   Append(cur, ChatMessage(role, content)))]

\* Lines 205-208: the dict json.dump writes.
ChatDict(sid, messages) ==
    [session_id |-> sid,
     messages |-> [i \in 1..Len(messages) |->
                     [role |-> messages[i].role, content |-> messages[i].content]]]

\* save_chat_session writing under the raw identifier.
SaveFileNameRaw(sid) == sid

\* Lines 202-204 of save_chat_session: the file of a session.
SaveFileName(sid) == SafeSessionId(sid)

\* Lines 197-217: save_chat_session.
SaveChatSession(w, sid) ==
    LET w1 == Log(w, "mem_read", sid)
    IN IF sid \notin DOMAIN w.sessions \/ w.sessions[sid] = <<>> THEN w1
       ELSE [Log(w1, "disk_write", SaveFileName(sid)) EXCEPT
               !.disk = Put(w.disk, SaveFileName(sid),
                            ChatDict(sid, w.sessions[sid]))]

\* Lines 24-47: load_session_from_disk; ok is what it returns.
LoadSessionFromDisk(w, sid) ==
    LET name == SafeSessionId(sid)
        w1 == Log(w, "disk_read", name)
    IN IF name \notin DOMAIN w.disk THEN [w |-> w1, ok |-> FALSE]
       ELSE LET msgs == w.disk[name].messages
                messages == [i \in 1..Len(msgs) |->
                               ChatMessage(msgs[i].role, msgs[i].content)]
            IN [w |-> [Log(w1, "mem_write", sid) EXCEPT
                         !.sessions = Put(w.sessions, sid, messages)],
                ok |-> TRUE]

\* get_or_create_session that installs an empty list for every valid id it
\* is given, resident or not.
GetOrCreateSessionFresh(w, req, n) ==
    IF ~req.given \/ req.id = <<>>
    THEN [w |-> [Log(w, "mem_write", Uuid(n + 1)) EXCEPT
                   !.sessions = Put(w.sessions, Uuid(n + 1), <<>>)],
          sid |-> Uuid(n + 1), raised |-> FALSE, uuids |-> n + 1]
    ELSE IF ~ValidateSessionId(req.id)
    THEN [w |-> w, sid |-> <<>>, raised |-> TRUE, uuids |-> n]
    ELSE [w |-> [Log(w, "mem_write", req.id) EXCEPT
                   !.sessions = Put(w.sessions, req.id, <<>>)],
          sid |-> req.id, raised |-> FALSE, uuids |-> n]

\* Lines 61-86: get_or_create_session; n uuids were generated before.
\* raised: it raised ValueError.
GetOrCreateSession(w, req, n) ==
    IF ~req.given \/ req.id = <<>>
    THEN [w |-> [Log(w, "mem_write", Uuid(n + 1)) EXCEPT
                   !.sessions = Put(w.sessions, Uuid(n + 1), <<>>)],
          sid |-> Uuid(n + 1), raised |-> FALSE, uuids |-> n + 1]
    ELSE IF ~ValidateSessionId(req.id)
    THEN [w |-> w, sid |-> <<>>, raised |-> TRUE, uuids |-> n]
    ELSE LET w1 == Log(w, "mem_read", req.id)
         IN IF req.id \in DOMAIN w.sessions
            THEN [w |-> w1, sid |-> req.id, raised |-> FALSE, uuids |-> n]
            ELSE LET l == LoadSessionFromDisk(w1, req.id)
                 IN IF l.ok
                    THEN [w |-> l.w, sid |-> req.id, raised |-> FALSE, uuids |-> n]
                    ELSE [w |-> [Log(l.w, "mem_write", req.id) EXCEPT
                                   !.sessions = Put(w.sessions, req.id, <<>>)],
                          sid |-> req.id, raised |-> FALSE, uuids |-> n]

\* Line 95-96: get_chat_history.
GetChatHistory(w, sid) ==
    [w |-> Log(w, "mem_read", sid),
     messages |-> IF sid \in DOMAIN w.sessions THEN w.sessions[sid] ELSE <<>>]

-----------------------------------------------------------------------------
(* ChatService and the endpoints of src/app/main.py that use it.  Requests *)
(* are served one after the other.                                         *)

SAVE_EVERY_N_CHUNKS == 5

NoRoundTrip == [stage |-> "none", sid |-> <<>>, turns |-> <<>>]

\* The request frame: op is the endpoint, req the session_id it was sent,
\* sid the session it works on, status the HTTP status it answered (0: not
\* yet), access the registry and file accesses it has made.  rt follows a
\* save that is followed by a restart and a load of the same session.
IdleChat ==
    [pc |-> "idle", op |-> "", req |-> NoId, sid |-> <<>>, status |-> 0,
     access |-> <<>>, requests |-> 0, uuids |-> 0, chunk_count |-> 0,
     n |-> 0, ended |-> "", rt |-> NoRoundTrip]

World == [sessions |-> sessions, disk |-> disk, access |-> chat.access]

Saved(w, sid) ==
    [stage |-> "saved", sid |-> sid,
     turns |-> IF sid \in DOMAIN w.sessions THEN w.sessions[sid] ELSE <<>>]

StreamOps == {"chat_stream", "chat_realtime_stream"}
MessageOps == {"chat", "chat_realtime"}

\* What get_response of the service does for the endpoint op.  The realtime
\* get_response returns None when it has swallowed an exception (lines
\* 205-206 of realtime_service.py).
ResponseOutcomes(op) ==
    IF op = "chat" THEN {"ok", "all_failed", "rate_limited", "error"}
    ELSE {"ok", "all_failed", "none"}

\* The except clauses of the endpoints (main.py lines 214-227, 439-452).
\* ChatMessage(content=None) raises pydantic's ValidationError, a ValueError.
StatusOf(outcome) ==
    IF outcome = "none" THEN 400
    ELSE IF outcome = "all_failed" THEN 503
    ELSE IF outcome = "rate_limited" THEN 429
    ELSE 500

\* main.py lines 207-208, 400-401, 432-433, 463-464: a request arrives and
\* the endpoint calls get_or_create_session; ValueError becomes status 400.
ChatRequest ==
    /\ chat.pc = "idle"
    /\ chat.requests < MaxRequests
    /\ \E op \in MessageOps \cup StreamOps, req \in RequestIds :
         LET g == GetOrCreateSession([World EXCEPT !.access = <<>>], req, chat.uuids)
             rt == IF chat.rt.stage = "restarted" /\ ~g.raised /\ g.sid = chat.rt.sid
                   THEN [chat.rt EXCEPT !.stage = "loaded"] ELSE NoRoundTrip
         IN /\ sessions' = g.w.sessions
            /\ disk' = g.w.disk
            /\ chat' = [chat EXCEPT !.pc = IF g.raised THEN "idle" ELSE "process",
                                    !.op = op, !.req = req, !.sid = g.sid,
                                    !.status = IF g.raised THEN 400 ELSE 0,
                                    !.access = g.w.access,
                                    !.requests = @ + 1, !.uuids = g.uuids,
                                    !.chunk_count = 0, !.n = 0, !.ended = "",
                                    !.rt = rt]
    /\ UNCHANGED <<genVars, llmVars, segVars, streams>>

\* main.py lines 485-498: GET /chat/history/{session_id}.  The identifier is
\* one non-empty path segment.
HistoryRequest ==
    /\ chat.pc = "idle"
    /\ chat.requests < MaxRequests
    /\ \E id \in {i \in ClientIds : i # <<>> /\ ~Has(i, "/")} :
         LET h == GetChatHistory([World EXCEPT !.access = <<>>], id)
         IN chat' = [chat EXCEPT !.op = "history", !.req = GivenId(id),
                                 !.sid = id, !.status = 200,
                                 !.access = h.w.access, !.requests = @ + 1,
                                 !.chunk_count = 0, !.n = 0, !.ended = "",
                                 !.rt = NoRoundTrip]
    /\ UNCHANGED <<sessions, disk>>
    /\ UNCHANGED <<genVars, llmVars, segVars, streams>>

\* chat_service.py lines 119-127 and 129-139 (process_message,
\* process_realtime_message), with the endpoint's except clauses.
ProcessMessage ==
    /\ chat.pc = "process"
    /\ chat.op \in MessageOps
    /\ \E outcome \in ResponseOutcomes(chat.op) :
         LET w1 == AddMessage(World, chat.sid, "user", <<"m">>)
             w2 == Log(w1, "mem_read", chat.sid)
             w3 == IF outcome = "ok"
                   THEN AddMessage(w2, chat.sid, "assistant", <<"r">>) ELSE w2
         IN /\ sessions' = w3.sessions
            /\ disk' = w3.disk
            /\ chat' = [chat EXCEPT !.pc = IF outcome = "ok" THEN "save" ELSE "idle",
                                    !.status = IF outcome = "ok" THEN 0
                                               ELSE StatusOf(outcome),
                                    !.access = w3.access, !.rt = NoRoundTrip]
    /\ UNCHANGED <<genVars, llmVars, segVars, streams>>

\* main.py lines 210-212 and 435-437: save_chat_session(session_id), then the
\* response.
SaveSession ==
    /\ chat.pc = "save"
    /\ LET w1 == SaveChatSession(World, chat.sid)
       IN /\ sessions' = w1.sessions
          /\ disk' = w1.disk
          /\ chat' = [chat EXCEPT !.pc = "idle", !.status = 200,
                                  !.access = w1.access,
                                  !.rt = Saved(w1, chat.sid)]
    /\ UNCHANGED <<genVars, llmVars, segVars, streams>>

\* chat_service.py lines 146-150 and 174-179: the streamed response starts:
\* the user turn and an empty assistant turn are appended.  (The endpoint
\* has answered 200 with the StreamingResponse, main.py lines 403, 466.)
StreamStart ==
    /\ chat.pc = "process"
    /\ chat.op \in StreamOps
    /\ LET w1 == AddMessage(World, chat.sid, "user", <<"m">>)
           w2 == AddMessage(w1, chat.sid, "assistant", <<>>)
           w3 == Log(w2, "mem_read", chat.sid)
       IN /\ sessions' = w3.sessions
          /\ disk' = w3.disk
          /\ chat' = [chat EXCEPT !.pc = "streaming", !.status = 200,
                                  !.access = w3.access, !.chunk_count = 0,
                                  !.n = 0, !.rt = NoRoundTrip]
    /\ UNCHANGED <<genVars, llmVars, segVars, streams>>

\* The k-th text delta of a streamed response.
DeltaText(k) == << <<"d1", "d2", "d3", "d4", "d5", "d6">>[k] >>

\* AppendChunk putting the chunk in front of the turn's text.
AppendChunkInFront(w, sid, chunk) ==
    LET turns == w.sessions[sid]
        last == turns[Len(turns)]
    IN [Log(w, "mem_write", sid) EXCEPT
          !.sessions = Put(w.sessions, sid,
                           [turns EXCEPT ![Len(turns)] =
                              ChatMessage(last.role, chunk \o last.content)])]

\* sessions[session_id][-1].content += chunk
AppendChunk(w, sid, chunk) ==
    LET turns == w.sessions[sid]
        last == turns[Len(turns)]
    IN [Log(w, "mem_write", sid) EXCEPT
          !.sessions = Put(w.sessions, sid,
                           [turns EXCEPT ![Len(turns)] =
                              ChatMessage(last.role, last.content \o chunk)])]

\* The periodic-save test of the two streams: process_message_stream counts
\* the chunk first (lines 157-158); process_realtime_message_stream never
\* counts (line 188).
CountedChunks(op, chunk_count) ==
    IF op = "chat_stream" THEN chunk_count + 1 ELSE chunk_count

\* chat_service.py lines 152-161 and 181-190: one text delta of the stream.
StreamDelta ==
    /\ chat.pc = "streaming"
    /\ chat.n < MaxStreamDeltas
    /\ LET w1 == AppendChunk(World, chat.sid, DeltaText(chat.n + 1))
           cc == CountedChunks(chat.op, chat.chunk_count)
           saves == cc % SAVE_EVERY_N_CHUNKS = 0
           w2 == IF saves THEN SaveChatSession(w1, chat.sid) ELSE w1
       IN /\ sessions' = w2.sessions
          /\ disk' = w2.disk
          /\ chat' = [chat EXCEPT !.chunk_count = cc, !.n = @ + 1,
                                  !.access = w2.access,
                                  !.rt = IF saves THEN Saved(w2, chat.sid)
                                         ELSE NoRoundTrip]
    /\ UNCHANGED <<genVars, llmVars, segVars, streams>>


\* The finally clauses: lines 162-165 (process_message_stream) and 191-194
\* (process_realtime_message_stream, which saves).
StreamFinally(w, op, sid) ==
    IF op = "chat_realtime_stream" THEN SaveChatSession(w, sid) ELSE w

\* The stream of the service is exhausted or raises, and the finally clause
\* runs.
StreamFinish ==
    /\ chat.pc = "streaming"
    /\ \E how \in {"exhausted", "raised"} :
         LET w1 == StreamFinally(Log(World, "mem_read", chat.sid), chat.op, chat.sid)
         IN /\ sessions' = w1.sessions
            /\ disk' = w1.disk
            /\ chat' = [chat EXCEPT !.pc = "idle", !.ended = how,
                                    !.access = w1.access,
                                    !.rt = IF chat.op = "chat_realtime_stream"
                                           THEN Saved(w1, chat.sid)
                                           ELSE NoRoundTrip]
    /\ UNCHANGED <<genVars, llmVars, segVars, streams>>

\* The process is restarted: ChatService.__init__ (line 22) starts with an
\* empty registry; the files stay.
Restart ==
    /\ chat.pc = "idle"
    /\ sessions # NoSessions
    /\ sessions' = NoSessions
    /\ chat' = [chat EXCEPT !.rt = IF chat.rt.stage = "saved"
                                   THEN [chat.rt EXCEPT !.stage = "restarted"]
                                   ELSE NoRoundTrip]
    /\ UNCHANGED disk
    /\ UNCHANGED <<genVars, llmVars, segVars, streams>>

-----------------------------------------------------------------------------
(* Two streamed requests for one session, served at the same time.  The    *)
(* endpoint is async and returns a StreamingResponse over a synchronous    *)
(* generator (main.py lines 392-406): each request's generator is advanced *)
(* from the server's thread pool, one next() at a time, and nothing in     *)
(* ChatService serialises the requests of a session.  A step is what one   *)
(* generator does between two yields.                                      *)

Streams == {1, 2}

NoStreams == <<>>

\* The session both requests name; get_or_create_session has returned it to
\* both before either generator is advanced.
SHARED == <<"a", "b">>

\* The frame of one process_message_stream / process_realtime_message_stream
\* call: turn is the index of the assistant turn it appended (0: none yet),
\* n the text deltas it has been given by its upstream.
NewStream(op) == [pc |-> "new", op |-> op, turn |-> 0, n |-> 0, chunk_count |-> 0]

\* The k-th text delta of the upstream of request r.
StreamDeltaText(r, k) ==
    << << <<"s1d1", "s1d2", "s1d3">>, <<"s2d1", "s2d2", "s2d3">> >>[r][k] >>

ConcWorld == [sessions |-> sessions, disk |-> disk, access |-> <<>>]

ConcInit ==
    /\ sessions = Put(NoSessions, SHARED, <<>>)
    /\ disk = NoFiles
    /\ chat = IdleChat
    /\ streams \in {[r \in Streams |-> NewStream(op[r])] : op \in [Streams -> StreamOps]}

\* chat_service.py lines 146-150 and 174-179: the first next() of request r.
ConcStart(r) ==
    /\ streams # NoStreams
    /\ streams[r].pc = "new"
    /\ LET w1 == AddMessage(ConcWorld, SHARED, "user", <<"m">>)
           w2 == AddMessage(w1, SHARED, "assistant", <<>>)
       IN /\ sessions' = w2.sessions
          /\ disk' = w2.disk
          /\ streams' = [streams EXCEPT ![r].pc = "streaming",
                                         ![r].turn = Len(w2.sessions[SHARED])]
    /\ UNCHANGED <<genVars, llmVars, segVars, chat>>

\* chat_service.py lines 152-161 and 181-190: one text delta of request r.
ConcDelta(r) ==
    /\ streams # NoStreams
    /\ streams[r].pc = "streaming"
    /\ streams[r].n < MaxStreamDeltas
    /\ LET w1 == AppendChunk(ConcWorld, SHARED, StreamDeltaText(r, streams[r].n + 1))
           cc == CountedChunks(streams[r].op, streams[r].chunk_count)
           w2 == IF cc % SAVE_EVERY_N_CHUNKS = 0
                 THEN SaveChatSession(w1, SHARED) ELSE w1
       IN /\ sessions' = w2.sessions
          /\ disk' = w2.disk
          /\ streams' = [streams EXCEPT ![r].n = @ + 1, ![r].chunk_count = cc]
    /\ UNCHANGED <<genVars, llmVars, segVars, chat>>

\* The upstream of request r is exhausted and the finally clause runs
\* (lines 162-165, 191-194).
ConcFinish(r) ==
    /\ streams # NoStreams
    /\ streams[r].pc = "streaming"
    /\ LET w1 == StreamFinally(ConcWorld, streams[r].op, SHARED)
       IN /\ sessions' = w1.sessions
          /\ disk' = w1.disk
          /\ streams' = [streams EXCEPT ![r].pc = "done"]
    /\ UNCHANGED <<genVars, llmVars, segVars, chat>>

-----------------------------------------------------------------------------
(* _split_sentences as a function of the buffer it is given.               *)

MaxTokens == 8      \* tokens of a buffer given to _split_sentences

\* A buffer is made of words, words ending in punctuation, and blanks.
Tokens == { <<W>>, <<W, DOT>>, <<WS>> }

SegInputs ==
    {Tag(Concat(t), 0) : t \in UNION {[1..n -> Tokens] : n \in 0..MaxTokens}}

IdleSeg == [pc |-> "idle", buf |-> <<>>, out |-> <<>>]

\* Lines 336-337: "sentences, buffer = _split_sentences(buffer)": the function
\* is applied to the buffer and the buffer becomes the remainder it returned.
\* (Applied a second time it gets that remainder, as it does on the next
\* delta before anything is appended.)
SegApply ==
    /\ seg.pc = "ready"
    /\ LET r == SplitSentences(seg.buf)
       IN seg' = [seg EXCEPT !.buf = r.remaining,
                             !.out = Append(@, r),
                             !.pc = IF Len(seg.out) = 0 THEN "ready" ELSE "done"]
    /\ UNCHANGED <<genVars, llmVars, chatVars>>

-----------------------------------------------------------------------------
(* The specifications.                                                     *)

\* No model call is in progress.
LlmIdle ==
    /\ entry = "_stream_generator"
    /\ provider = <<>>
    /\ retry = IdleRetry
    /\ invoke = IdleInvoke
    /\ getresp = IdleGetResp
    /\ sllm = IdleSllm
    /\ http = IdleHttp
    /\ search = IdleSearch

\* _split_sentences is not being applied.
SegIdle == seg = IdleSeg

\* The chat service has no session and serves no request.
ChatIdle ==
    /\ sessions = NoSessions
    /\ disk = NoFiles
    /\ chat = IdleChat
    /\ streams = NoStreams

\* No stream is in progress.
GenIdle ==
    /\ pc = "idle"
    /\ tts_enabled = FALSE
    /\ events = <<>>
    /\ buffer = <<>>
    /\ held = <<>>
    /\ is_first = TRUE
    /\ audio_queue = <<>>
    /\ jobs = <<>>
    /\ flush_i = 0
    /\ deltas = <<>>
    /\ consumed = 0
    /\ upstream = [state |-> "live", error |-> "", payload |-> NoPayload]

\* What chain.invoke of each credential would answer. Only get_response
\* reaches chain.invoke; for the other entry points the answers are never
\* consulted and only the number of credentials matters.
Providers ==
    UNION {[1..n -> {"ok"} \cup ProviderMsgs] : n \in 1..MaxKeys}
ProvidersUnused ==
    {[i \in 1..n |-> "ok"] : n \in 1..MaxKeys}

\* A caller has just entered with_retry (with any callable), get_response
\* or _stream_llm, with one to MaxKeys credentials configured.
LlmInit ==
    /\ entry \in {"with_retry", "get_response", "_stream_llm", "search_tavily"}
    /\ provider \in IF entry = "get_response" THEN Providers ELSE ProvidersUnused
    /\ retry \in IF entry = "with_retry"
                 THEN {StartRetry("fn", m, d) : m \in 1..MaxRetries, d \in {500, 1000}}
                 ELSE {IdleRetry}
    /\ invoke = IdleInvoke
    /\ getresp = IF entry = "get_response"
                 THEN [IdleGetResp EXCEPT !.pc = "build"] ELSE IdleGetResp
    /\ sllm = IF entry = "_stream_llm"
              THEN [IdleSllm EXCEPT !.pc = "streaming", !.attempts = <<0>>]
              ELSE IdleSllm
    /\ http = IdleHttp
    /\ search \in IF entry = "search_tavily"
                  THEN {[IdleSearch EXCEPT !.pc = "start", !.client = c] :
                          c \in BOOLEAN}
                  ELSE {IdleSearch}

Init == GenInit /\ LlmIdle /\ SegIdle /\ ChatIdle


Next ==
    \/ Open
    \/ SideChannel
    \/ ClientDisconnects
    \/ TextDelta
    \/ UpstreamRaises
    \/ UpstreamEnds
    \/ FlushJob
    \/ Finish
    \/ JobCompletes

Spec == Init /\ [][Next]_vars

\* A stream of the general mode (no search results precede the text) whose
\* client stays connected to the end.
InitLive == Init /\ upstream.payload = NoPayload

NextLive ==
    \/ Open
    \/ TextDelta
    \/ UpstreamRaises
    \/ UpstreamEnds
    \/ FlushJob
    \/ Finish
    \/ JobCompletes

\* The final loop is run by the generator itself, with no await and no lock:
\* a turn that can be taken is taken, and so is the last yield.  Nothing is
\* assumed of the workers: a job may stay pending for ever.
SpecLive == InitLive /\ [][NextLive]_vars /\ WF_vars(FlushJob) /\ WF_vars(Finish)

InitLlm == GenIdle /\ LlmInit /\ SegIdle /\ ChatIdle

NextLlm ==
    \/ RetryCall
    \/ RetrySleep
    \/ InvokeNextKey
    \/ InvokeAfterRetry
    \/ GetResponseBuild
    \/ GetResponseEnd
    \/ ChatResponds
    \/ SearchStart
    \/ SearchEnd
    \/ SllmChunk
    \/ SllmFails
    \/ SllmCompletes

SpecLlm == InitLlm /\ [][NextLlm]_vars

\* _split_sentences is about to be applied to some buffer.
SegInit == seg \in {[IdleSeg EXCEPT !.pc = "ready", !.buf = b] : b \in SegInputs}

InitSeg == GenIdle /\ LlmIdle /\ SegInit /\ ChatIdle

NextSeg == SegApply

SpecSeg == InitSeg /\ [][NextSeg]_vars

\* The chat service has just been started, with no file.
ChatInit == ChatIdle

InitChat == GenIdle /\ LlmIdle /\ SegIdle /\ ChatInit

NextChat ==
    \/ ChatRequest
    \/ HistoryRequest
    \/ ProcessMessage
    \/ SaveSession
    \/ StreamStart
    \/ StreamDelta
    \/ StreamFinish
    \/ Restart

SpecChat == InitChat /\ [][NextChat]_vars

InitConc == GenIdle /\ LlmIdle /\ SegIdle /\ ConcInit

NextConc ==
    \/ \E r \in Streams : ConcStart(r)
    \/ \E r \in Streams : ConcDelta(r)
    \/ \E r \in Streams : ConcFinish(r)

SpecConc == InitConc /\ [][NextConc]_vars

-----------------------------------------------------------------------------
(* Properties of the stream generator (specification Spec).                *)

AudioIdx == {i \in 1..Len(events) : events[i].kind = "audio"}
ChunkIdx == {i \in 1..Len(events) : events[i].kind = "chunk"}
DoneIdx == {i \in 1..Len(events) : events[i].done}

Range(f) == {f[i] : i \in DOMAIN f}

\* C1: audio events are emitted in the order their sentences were submitted,
\* whatever the order in which the synthesis jobs finish: the audio events
\* carry increasing job numbers and the sentence of their job, and a job's
\* audio is emitted only when every job submitted before it has been emitted
\* or dropped (failed or timed out), in _drain_ready and in the final loop.
C1_AudioInSubmissionOrder ==
    /\ \A a, b \in AudioIdx : a < b => events[a].audio < events[b].audio
    /\ \A a \in AudioIdx :
         /\ events[a].audio \in 1..Len(jobs)
         /\ events[a].sentence = jobs[events[a].audio].text
         /\ jobs[events[a].audio].fate = "emitted"
    /\ \A j \in 1..Len(jobs) :
         jobs[j].fate = "emitted" =>
           /\ \E a \in AudioIdx : events[a].audio = j
           /\ \A i \in 1..(j - 1) : jobs[i].fate \in {"emitted", "dropped"}

\* C1 witness: two audio events have been emitted while streaming, in
\* submission order, although the later job finished first.
C1_Witness ==
    /\ pc = "streaming"
    /\ \E a, b \in AudioIdx :
         /\ a < b
         /\ jobs[events[a].audio].finished > jobs[events[b].audio].finished

\* C2: the text-chunk events are, in order, exactly the deltas the upstream
\* produced, each with its text unchanged, with speech on or off.
C2_OneChunkPerDelta ==
    LET chunks == SelectSeq(events, LAMBDA e : e.kind = "chunk")
    IN /\ Len(chunks) = Len(deltas)
       /\ \A i \in 1..Len(deltas) :
            /\ chunks[i].chunk = deltas[i]
            /\ chunks[i].keys = {"chunk", "done"}
            /\ chunks[i].done = FALSE

\* C2 witness: a speech-enabled stream has passed on three deltas, a search
\* payload and an audio event.
C2_Witness ==
    /\ tts_enabled
    /\ Len(deltas) = 3
    /\ Cardinality(ChunkIdx) = 3
    /\ SearchCount = 1
    /\ AudioIdx # {}

\* C3: when an audio event is emitted, every upstream character of its
\* sentence has already been emitted in a text-chunk event.
C3_AudioAfterText ==
    \A a \in AudioIdx :
      \A x \in 1..Len(events[a].sentence) :
        LET c == events[a].sentence[x]
        IN c.p > 0 =>
             \E t \in ChunkIdx :
               /\ t < a
               /\ \E y \in 1..Len(events[t].chunk) : events[t].chunk[y] = c

\* C3 witness: an audio event whose sentence was put together from two deltas.
C3_Witness ==
    \E a \in AudioIdx :
      \E x, y \in 1..Len(events[a].sentence) :
        \E d \in 1..(Len(deltas) - 1) :
          /\ \E u \in 1..Len(deltas[d]) : deltas[d][u] = events[a].sentence[x]
          /\ \E v \in 1..Len(deltas[d + 1]) : deltas[d + 1][v] = events[a].sentence[y]

\* C4: at most one event has done = true and nothing follows it; a stream
\* that has ended has exactly one; and when the upstream raises, after any
\* number of deltas, the stream ends with the terminal event that has
\* done = true and carries the error message.
C4_OneTerminalEvent ==
    /\ Cardinality(DoneIdx) <= 1
    /\ DoneIdx # {} => DoneIdx = {Len(events)} /\ pc = "done"
    /\ pc = "done" => Cardinality(DoneIdx) = 1
    /\ upstream.state = "raised" =>
         /\ pc = "done"
         /\ events[Len(events)].done
         /\ "error" \in events[Len(events)].keys
         /\ events[Len(events)].error = upstream.error

\* C4 witness: the upstream raised after two deltas, with a job in the queue.
C4_Witness ==
    /\ upstream.state = "raised"
    /\ Len(deltas) = 2
    /\ audio_queue # <<>>

\* C5: the first event is the open event with the session id, emitted before
\* anything is taken from the upstream; a stream whose upstream was exhausted
\* ends with the terminal event with done = true, the session id and no error
\* key; a stream whose upstream raised never emits that event.
C5_OpenFirstDoneLast ==
    /\ pc = "start" => events = <<>> /\ consumed = 0 /\ upstream.state = "live"
    /\ pc # "start" =>
         /\ events # <<>>
         /\ events[1] = OpenEvent(SESSION)
         /\ "session_id" \in events[1].keys /\ events[1].session_id = SESSION
    /\ (pc = "done" /\ upstream.state = "exhausted") =>
         /\ events[Len(events)].done
         /\ events[Len(events)].keys = {"chunk", "done", "session_id"}
         /\ events[Len(events)].session_id = SESSION
    /\ upstream.state = "raised" =>
         \A i \in 1..Len(events) : ~(events[i].done /\ "error" \notin events[i].keys)

\* C5 witness: a stream with deltas has ended normally.
C5_Witness ==
    /\ pc = "done"
    /\ upstream.state = "exhausted"
    /\ Len(deltas) >= 2

\* The sentences passed to the dispatcher, in submission order.
Submitted == [j \in 1..Len(jobs) |-> jobs[j].text]

\* C10: when a speech-enabled stream has ended normally, the submitted
\* sentences, concatenated in submission order, have exactly the non-blank
\* characters of the concatenated deltas, in the same order.
C10_NoTextLost ==
    (tts_enabled /\ upstream.state = "exhausted") =>
        NonWs(Concat(Submitted)) = NonWs(Concat(deltas))

\* C10 witness: a stream of three deltas has ended after submitting three
\* sentences, one of them joined from two pieces.
C10_Witness ==
    /\ tts_enabled
    /\ upstream.state = "exhausted"
    /\ Len(deltas) = 3
    /\ Len(jobs) >= 3
    /\ \E j \in 1..Len(jobs) : \E x \in 1..Len(jobs[j].text) : jobs[j].text[x] = SP

-----------------------------------------------------------------------------
(* Properties of the upstream model calls (specification SpecLlm).         *)

\* The credentials whose provider call would succeed.
OkKeys == {i \in 0..(NumKeys - 1) : provider[i + 1] = "ok"}

UpTo(n) == [k \in 1..n |-> k - 1]

\* C6: once _invoke_llm is over, if some credential's provider call succeeds
\* it has returned the content of the lowest such credential, having tried
\* the credentials 0..i in order and none after it (with three credentials of
\* which the first two fail: the content of the third).
C6_FallbackReturnsFirstSuccess ==
    (invoke.pc \in {"returned", "raised"} /\ OkKeys # {}) =>
        /\ invoke.pc = "returned"
        /\ invoke.result = <<"content", Min(OkKeys)>>
        /\ invoke.keys_tried = UpTo(Min(OkKeys) + 1)

\* C7: when every credential has failed, _invoke_llm raises
\* AllGroqApisFailedError with the fixed message, once, and not the last
\* credential's own exception; get_response raises that very exception.
C7_AllFailedRaisesDistinguished ==
    /\ invoke.pc = "raised" =>
         /\ invoke.keys_tried = UpTo(NumKeys)
         /\ invoke.raises = 1
         /\ Len(invoke.raised) = 1
         /\ invoke.raised[1].type = "AllGroqApisFailedError"
         /\ invoke.raised[1].msg = ALL_APIS_FAILED_MESSAGE
         /\ invoke.raised # invoke.last_exc
    /\ invoke.pc # "raised" => invoke.raises = 0
    /\ (getresp.pc \in {"returned", "raised"} /\ invoke.pc = "raised") =>
         /\ getresp.pc = "raised"
         /\ getresp.raised = invoke.raised

\* C7 witness: with three credentials all failed, get_response has raised.
C7_Witness ==
    /\ NumKeys = 3
    /\ invoke.keys_tried = <<0, 1, 2>>
    /\ invoke.pc = "raised"
    /\ getresp.pc = "raised"

\* C8: with_retry calls fn at most max_retries times, never again after a
\* call that succeeded; it returns the result of the first successful call,
\* and when all max_retries calls failed it raises the exception of the last
\* call itself.
C8_RetryCallsAndResult ==
    LET n == Len(retry.calls)
    IN /\ n <= retry.max_retries
       /\ \A k \in 1..(n - 1) : ~retry.calls[k].ok
       /\ (n > 0 /\ retry.calls[n].ok) => retry.pc = "returned"
       /\ retry.pc = "returned" =>
            /\ n > 0 /\ retry.calls[n].ok
            /\ retry.result = retry.calls[n].val
       /\ retry.pc = "raised" =>
            /\ n = retry.max_retries
            /\ ~retry.calls[n].ok
            /\ retry.raised = retry.calls[n].exc

\* C8 witness: three calls with max_retries = 3 all failed, the last one
\* differently from the first, and with_retry has raised.
C8_Witness ==
    /\ entry = "with_retry"
    /\ retry.max_retries = 3
    /\ retry.pc = "raised"
    /\ Len(retry.calls) = 3
    /\ retry.calls[1].exc[1].msg # retry.calls[3].exc[1].msg

\* C9: _stream_llm starts the streams of credentials 0, 1, 2, ... in that
\* order, each at most once; every credential before the current one has
\* failed, whether or not it had yielded deltas, and each stream is read
\* from its first chunk; the generator returns when a stream completes, and
\* it raises AllGroqApisFailedError exactly when all credentials have failed.
C9_StreamFallback ==
    entry = "_stream_llm" =>
      LET a == Len(sllm.attempts)
          f == Len(sllm.failed)
      IN /\ a <= NumKeys
         /\ sllm.attempts = UpTo(a)
         /\ sllm.failed = UpTo(f)
         /\ sllm.pc \in {"streaming", "returned"} => f = a - 1 /\ sllm.i = a - 1
         /\ (sllm.pc = "raised") <=> (f = NumKeys)
         /\ sllm.pc = "raised" =>
              /\ Len(sllm.raised) = 1
              /\ sllm.raised[1].type = "AllGroqApisFailedError"
         /\ \A x \in 1..Len(sllm.yielded) :
              /\ sllm.yielded[x].cred \in Range(sllm.attempts)
              /\ sllm.yielded[x].k >= 1
              /\ \A y \in 1..(x - 1) :
                   \/ sllm.yielded[y].cred < sllm.yielded[x].cred
                   \/ /\ sllm.yielded[y].cred = sllm.yielded[x].cred
                      /\ sllm.yielded[y].k < sllm.yielded[x].k

\* C9 witness: the first credential failed after yielding a delta, the
\* second was then read from its first chunk, and the generator returned.
C9_Witness ==
    /\ entry = "_stream_llm"
    /\ sllm.pc = "returned"
    /\ sllm.i = 1
    /\ \E x, y \in 1..Len(sllm.yielded) :
         /\ sllm.yielded[x].cred = 0
         /\ sllm.yielded[y].cred = 1 /\ sllm.yielded[y].k = 1

-----------------------------------------------------------------------------
(* The segmenter over a whole stream (specification Spec).                 *)

\* The sentences of the whole text of the stream: its pieces between
\* separators, stripped, the empty ones left out.
StreamSentences ==
    LET parts == SplitRe(Concat(deltas))
        stripped == [i \in 1..Len(parts) |-> Strip(parts[i])]
    IN SelectSeq(stripped, LAMBDA q : q # <<>>)

\* One or more sentences of at most two words, then a longer one.
ShortThenLong(ss) ==
    /\ Len(ss) >= 2
    /\ \A i \in 1..(Len(ss) - 1) : WordCount(ss[i]) <= MERGE_IF_WORDS
    /\ WordCount(ss[Len(ss)]) > MERGE_IF_WORDS

RECURSIVE JoinSp(_)
JoinSp(ss) ==
    IF Len(ss) <= 1 THEN Concat(ss)
    ELSE Head(ss) \o <<SP>> \o JoinSp(Tail(ss))

\* C11: when the text of a speech-enabled stream is one or more sentences of
\* at most two words followed by a longer sentence, and the stream has ended,
\* exactly one sentence was submitted for synthesis: all of them joined in
\* order by single blanks.
C11_ShortFragmentsCollapse ==
    (tts_enabled /\ upstream.state = "exhausted" /\ ShortThenLong(StreamSentences))
        => Submitted = <<JoinSp(StreamSentences)>>

-----------------------------------------------------------------------------
(* Properties of _split_sentences as a function (specification SpecSeg).   *)

\* C19: after _split_sentences has been applied to a buffer, applying it
\* again to the remainder it returned accepts no sentence and returns the
\* same remainder: nothing that can be split off is left in the carried
\* buffer.
C19_SplitExhaustive ==
    Len(seg.out) = 2 =>
        /\ seg.out[2].sentences = <<>>
        /\ seg.out[2].remaining = seg.out[1].remaining

-----------------------------------------------------------------------------
(* Properties of the chat service (specification SpecChat).                *)

\* The request in hand was sent this session_id.
Sent(id) == chat.requests > 0 /\ chat.req = GivenId(id)

Malformed(id) ==
    Has(id, "..") \/ Has(id, "/") \/ Has(id, "\\") \/ IdLen(id) > 255

\* C12: a request whose session id contains "..", "/" or "\", or is longer
\* than 255 characters, is rejected (status 400) on every operation that
\* takes a session id, history retrieval included, and it has read or
\* written neither the registry nor a file.
C12_MalformedIdRejectedFirst ==
    \A id \in ClientIds :
      (Sent(id) /\ Malformed(id)) => (chat.status = 400 /\ chat.access = <<>>)

C14_TurnsAlternate ==
    \A sid \in DOMAIN sessions :
      \A i \in 1..Len(sessions[sid]) :
        sessions[sid][i].role = IF i % 2 = 1 THEN "user" ELSE "assistant"

\* C17: when a streamed request has finished (its stream exhausted or
\* failed), the file of the session holds the turn list that is in memory.
C17_StreamEndSaves ==
    (chat.op \in StreamOps /\ chat.ended # "" /\ chat.sid \in DOMAIN sessions) =>
        /\ SafeSessionId(chat.sid) \in DOMAIN disk
        /\ disk[SafeSessionId(chat.sid)].messages = sessions[chat.sid]

\* C20: a chat request that sends an empty or blank session id is answered
\* 400 and creates or writes no session; a request that sends none works on
\* a newly generated session.
C20_EmptyIdRejected ==
    /\ \A id \in {i \in ClientIds : i = <<>> \/ IsBlankId(i)} :
         (Sent(id) /\ chat.op # "history") =>
            /\ chat.status = 400
            /\ \A a \in 1..Len(chat.access) :
                 chat.access[a].kind \notin {"mem_write", "disk_write"}
    /\ (chat.requests > 0 /\ chat.req = NoId) =>
          chat.sid = Uuid(chat.uuids)

-----------------------------------------------------------------------------
(* Properties of the /chat endpoint over the model calls (SpecLlm).        *)

\* C16: when the provider answers every credential with a rate-limit
\* failure, the /chat request is answered 429 with the rate-limit message,
\* not with the all-upstream-failed or the internal-error answer.
C16_AllRateLimitedIs429 ==
    (/\ http.pc = "done"
     /\ invoke.pc = "raised"
     /\ \A i \in 1..NumKeys : provider[i] = RATE_LIMIT_MSG)
        => (http.status = 429 /\ http.detail = RATE_LIMIT_MESSAGE)

-----------------------------------------------------------------------------
(* Properties of search_tavily (specification SpecLlm).                    *)

\* C18: search_tavily never raises; with no client, with every one of the 3
\* attempts failed, or with a response of zero results it returns ("", None);
\* and the payload it returns is None exactly when the formatted text is
\* empty.
C18_SearchNeverRaises ==
    /\ search.pc # "raised" /\ search.raised = <<>>
    /\ search.pc = "returned" =>
         /\ Len(search.result) = 1
         /\ (\/ ~search.client
             \/ search.failed
             \/ (search.response # <<>> /\ search.response[1].results = <<>>))
               => search.result[1] = EmptyResult
         /\ search.failed => search.attempts = SEARCH_MAX_RETRIES
         /\ (search.result[1].payload = <<>>) <=> (search.result[1].formatted = <<>>)

\* C18 witness: the search failed three times and search_tavily returned
\* the empty tuple.
C18_Witness ==
    /\ search.pc = "returned"
    /\ search.client
    /\ search.failed
    /\ search.attempts = 3
    /\ search.result = <<EmptyResult>>

-----------------------------------------------------------------------------
(* Properties of the realtime stream (specification Spec).                 *)

SearchIdx == {i \in 1..Len(events) : events[i].kind = "search_results"}

\* C15: in a stream whose search returned a payload, once the first item of
\* the upstream has been passed on there is exactly one search_results event,
\* and it precedes every text-chunk event and every audio event; when the
\* upstream then ends, the final event has done = true and no error key; in a
\* stream whose search returned no payload there is no search_results event.
C15_SearchResultsFirst ==
    /\ (upstream.payload # NoPayload /\ consumed >= 1) =>
         /\ Cardinality(SearchIdx) = 1
         /\ \A s \in SearchIdx : \A i \in 1..Len(events) :
              events[i].kind \in {"chunk", "audio"} => s < i
    /\ (upstream.payload # NoPayload /\ pc = "done" /\ upstream.state = "exhausted") =>
         /\ Cardinality(SearchIdx) = 1
         /\ events[Len(events)].done = TRUE
         /\ "error" \notin events[Len(events)].keys
    /\ upstream.payload = NoPayload => SearchIdx = {}

\* C15 witness: a finished speech-enabled stream with a search payload, text
\* chunks and an audio event.
C15_Witness ==
    /\ upstream.payload # NoPayload
    /\ pc = "done"
    /\ upstream.state = "exhausted"
    /\ \E i \in 1..Len(events) : events[i].kind = "audio"
    /\ \E i \in 1..Len(events) : events[i].kind = "chunk"
    /\ SearchIdx # {}

-----------------------------------------------------------------------------
(* Properties of the dispatcher and the coordinator (specification Spec).  *)

\* C21: when the generator of a speech-enabled stream has been closed before
\* it was exhausted, every job of its queue whose future is still pending
\* has been requested to cancel, as it is when the upstream raises.
C21_DisconnectCancels ==
    (pc = "closed" /\ tts_enabled) =>
        \A i \in 1..Len(audio_queue) :
            jobs[audio_queue[i]].st = "pending" => jobs[audio_queue[i]].cancel_req

\* The jobs a drain or the final loop has met and found failed.
FailedDropped == {j \in 1..Len(jobs) : jobs[j].st = "failed" /\ jobs[j].fate = "dropped"}

InQueue(j) == \E i \in 1..Len(audio_queue) : audio_queue[i] = j

\* C22 as stated: a failed job that was met produces no audio event and is
\* no longer in the job queue; the audio events of the other jobs are
\* emitted in submission order and a stream whose upstream ended ends with
\* the success terminal event.
C22_FailedJobRemoved ==
    \A j \in FailedDropped : ~InQueue(j)

\* C22, amended: a job that fails produces no audio event and is met only
\* once: a drain pops it from the queue, and the final loop passes over it
\* (leaving the queue as it is); it never fails the request: the audio
\* events stay in submission order, every job that finished with its audio
\* before the stream ended has its audio event, and a stream whose upstream
\* ended ends with the event done = true without an error key.
C22_FailedJobDropped ==
    /\ \A j \in 1..Len(jobs) : jobs[j].st = "failed" =>
         \A i \in 1..Len(events) : events[i].kind = "audio" => events[i].audio # j
    /\ \A j \in FailedDropped :
         \/ ~InQueue(j)
         \/ /\ pc \in {"flushing", "done", "closed"}
            /\ \A i \in 1..Len(audio_queue) : audio_queue[i] = j => i < flush_i
    /\ \A a, b \in 1..Len(events) :
         (a < b /\ events[a].kind = "audio" /\ events[b].kind = "audio")
            => events[a].audio < events[b].audio
    /\ (pc = "done" /\ upstream.state = "exhausted") =>
         /\ \A j \in 1..Len(jobs) : jobs[j].st = "ok" =>
              \E i \in 1..Len(events) : events[i].kind = "audio" /\ events[i].audio = j
         /\ events[Len(events)] = TerminalDone(SESSION)
         /\ "error" \notin events[Len(events)].keys
         /\ \A i \in 1..Len(events) : events[i].kind # "error"

\* C22 witness: a stream has ended normally although a job failed, and a
\* job submitted after the failed one has its audio event.
C22_Witness ==
    /\ pc = "done"
    /\ upstream.state = "exhausted"
    /\ \E j \in FailedDropped : \E i \in 1..Len(events) :
         events[i].kind = "audio" /\ events[i].audio > j

\* The step in which the upstream raises.
RaiseStep == upstream.state = "live" /\ upstream'.state = "raised"

\* C23: in the step in which the upstream raises, every job of the audio
\* queue is requested to cancel, the queue is left as it is (no drain), and
\* the only event emitted is the terminal error event: no audio event, not
\* even for a queued job that had already finished with its audio; nothing
\* is emitted afterwards.
C23_RaiseCancelsWithoutDrain ==
    [][/\ RaiseStep =>
            /\ \A i \in 1..Len(audio_queue) : jobs'[audio_queue[i]].cancel_req
            /\ audio_queue' = audio_queue
            /\ \A j \in 1..Len(jobs) : jobs'[j].fate = jobs[j].fate
            /\ events' = Append(events, TerminalError(upstream'.error))
       /\ upstream.state = "raised" => events' = events]_vars

\* C23 witness: the upstream has raised while a job that had finished with
\* its audio was still in the queue, and that job has no audio event.
C23_Witness ==
    /\ upstream.state = "raised"
    /\ \E i \in 1..Len(audio_queue) :
         /\ jobs[audio_queue[i]].st = "ok"
         /\ jobs[audio_queue[i]].cancel_req
         /\ \A e \in 1..Len(events) :
              events[e].kind = "audio" => events[e].audio # audio_queue[i]
    /\ events[Len(events)].kind = "error"

\* The step in which a speech-enabled stream takes a text delta, and what
\* _split_sentences returns for it.
DeltaStep == tts_enabled /\ Len(deltas') = Len(deltas) + 1

SplitOfStep == SplitSentences(buffer \o deltas'[Len(deltas')])

\* No sentence has been accepted in the stream yet: none submitted, none held.
NoneAccepted == is_first /\ held = <<>>

\* C24: a piece that _split_sentences returns as a sentence has at least 2
\* words when it is the first sentence accepted in the stream, and at least
\* 3 words when a sentence of the stream was accepted before it, in the same
\* delta or in an earlier one.
C24_StreamWideThreshold ==
    [][DeltaStep =>
         \A i \in 1..Len(SplitOfStep.sentences) :
            WordCount(SplitOfStep.sentences[i]) >=
               (IF NoneAccepted /\ i = 1 THEN MIN_WORDS_FIRST ELSE MIN_WORDS)]_vars

\* The step in which the upstream of a speech-enabled stream ends, and the
\* texts of the jobs it submits.
EndStep == tts_enabled /\ upstream.state = "live" /\ upstream'.state = "exhausted"

FlushTexts == [i \in 1..(Len(jobs') - Len(jobs)) |-> jobs'[Len(jobs) + i].text]

\* C25: when a speech-enabled stream ends normally, with r the stripped
\* buffer remainder: nothing is submitted if the held sentence and r are both
\* empty; exactly held + " " + r if both are non-empty and r has at most 2
\* words; held and then r if both are non-empty and r has more than 2 words;
\* exactly the non-empty one if only one of them is non-empty.  The jobs are
\* appended to the queue in that order.
C25_FlushRule ==
    [][EndStep =>
         LET r == Strip(buffer)
         IN /\ (held = <<>> /\ r = <<>>) => FlushTexts = <<>>
            /\ (held # <<>> /\ r # <<>> /\ WordCount(r) <= 2)
                  => FlushTexts = <<held \o <<SP>> \o r>>
            /\ (held # <<>> /\ r # <<>> /\ WordCount(r) > 2)
                  => FlushTexts = <<held, r>>
            /\ (held # <<>> /\ r = <<>>) => FlushTexts = <<held>>
            /\ (held = <<>> /\ r # <<>>) => FlushTexts = <<r>>
            /\ audio_queue' = audio_queue \o
                  [i \in 1..Len(FlushTexts) |-> Len(jobs) + i]]_vars

\* C25 witness: the stream has ended with a held sentence and a remainder of
\* more than 2 words, and both were submitted, the held sentence first.
C25_Witness ==
    /\ tts_enabled
    /\ pc = "flushing"
    /\ held # <<>>
    /\ WordCount(Strip(buffer)) > 2
    /\ Len(jobs) >= 2
    /\ jobs[Len(jobs) - 1].text = held
    /\ jobs[Len(jobs)].text = Strip(buffer)

\* The stream has ended with a held sentence and a remainder of at most 2
\* words, submitted as one sentence.
C25_WitnessMerged ==
    /\ tts_enabled
    /\ pc = "flushing"
    /\ held # <<>>
    /\ Strip(buffer) # <<>>
    /\ WordCount(Strip(buffer)) <= 2
    /\ jobs[Len(jobs)].text = held \o <<SP>> \o Strip(buffer)

\* The upstream positions of the characters of a text.
TextPos(t) == {t[i].p : i \in 1..Len(t)} \ {0}

Before(t, u) == \A x \in TextPos(t) : \A y \in TextPos(u) : x < y

IsPrefix(t, u) == Len(t) <= Len(u) /\ SubSeq(u, 1, Len(t)) = t

\* The texts of the jobs a step submits.
StepTexts == [i \in 1..(Len(jobs') - Len(jobs)) |-> jobs'[Len(jobs) + i].text]

\* The submissions are in the order of the text, and while the stream is
\* being consumed the held sentence lies after every submitted sentence and
\* before the buffer.
SubmissionsInTextOrder ==
    /\ \A i, j \in 1..Len(jobs) : i < j => Before(jobs[i].text, jobs[j].text)
    /\ pc = "streaming" =>
         /\ \A i \in 1..Len(jobs) : Before(jobs[i].text, held)
         /\ Before(held, buffer)

\* C26: in a delta step of a speech-enabled stream, the last sentence of the
\* batch the segmenter returns is held (by itself or joined to the sentence
\* already held) and not submitted; a sentence that was held is either
\* extended or submitted (with what was joined to it) first among the texts
\* the step submits, so that only one sentence is held at a time; and the
\* submissions are in the order of the text.
C26_HeldTailInOrder ==
    /\ []SubmissionsInTextOrder
    /\ [][DeltaStep =>
            LET batch == SplitOfStep.sentences
            IN /\ batch # <<>> =>
                    /\ held' # <<>>
                    /\ held'[Len(held')] = batch[Len(batch)][Len(batch[Len(batch)])]
                    /\ \A i \in 1..Len(StepTexts) : StepTexts[i] # held'
               /\ batch = <<>> => (held' = held /\ StepTexts = <<>>)
               /\ held # <<>> =>
                    \/ IsPrefix(held, held') /\ StepTexts = <<>>
                    \/ StepTexts # <<>> /\ IsPrefix(held, StepTexts[1])]_vars

\* C26 witness: while streaming, a sentence was held, then submitted when a
\* later batch arrived, whose last sentence is now held.
C26_Witness ==
    /\ pc = "streaming"
    /\ Len(jobs) >= 2
    /\ held # <<>>
    /\ Before(jobs[Len(jobs)].text, held)
    /\ Len(deltas) >= 2
    /\ TextPos(jobs[Len(jobs)].text) \cap TextPos(deltas[1]) # {}
    /\ TextPos(held) \cap TextPos(deltas[Len(deltas)]) # {}

\* The step that passes a side-channel dict on.
SideChannelStep == consumed' = consumed + 1 /\ Len(deltas') = Len(deltas)

TerminalIdx == {i \in 1..Len(events) : events[i].done}

\* C28: in a stream without speech output no synthesis job is ever
\* submitted and no audio event emitted, the segmenter state (buffer, held
\* sentence, first-sentence flag) keeps its initial value, and the events
\* are the open event first, then search_results and text-chunk events, and
\* one terminal event, the last one, when the stream has ended.
C28_NoSpeechFrame ==
    ~tts_enabled =>
        /\ jobs = <<>> /\ audio_queue = <<>>
        /\ buffer = <<>> /\ held = <<>> /\ is_first
        /\ \A i \in 1..Len(events) :
             /\ events[i].kind \in {"open", "search_results", "chunk", "error", "done"}
             /\ (events[i].kind = "open") <=> (i = 1)
        /\ TerminalIdx \subseteq {Len(events)}
        /\ pc = "done" => TerminalIdx = {Len(events)}
        /\ pc \in {"streaming", "flushing"} => TerminalIdx = {}

\* C28 witness: a stream without speech output has ended after a search
\* payload and three deltas that hold complete sentences.
C28_Witness ==
    /\ ~tts_enabled
    /\ pc = "done"
    /\ upstream.state = "exhausted"
    /\ SearchCount = 1
    /\ Len(deltas) = 3
    /\ \A d \in 1..3 : Len(SplitSentences(deltas[d]).sentences) = 2

-----------------------------------------------------------------------------
(* Properties of the session registry (specification SpecChat).            *)

\* The step in which an endpoint's get_or_create_session returns a session.
SessionStep == chat.requests' = chat.requests + 1 /\ chat.pc' = "process"

DiskReads(log) == {i \in 1..Len(log) : log[i].kind = "disk_read"}

C29_WitnessLoaded ==
    /\ chat.pc = "process"
    /\ chat.req.given
    /\ DiskReads(chat.access) # {}
    /\ Len(sessions[chat.sid]) = 2

DiskWrites(log) == {i \in 1..Len(log) : log[i].kind = "disk_write"}

\* C30: while a response is streamed, general or realtime, the session has
\* been saved once for every 5 text deltas appended so far (after the 5th,
\* the 10th, ...), and not on the deltas in between.
C30_SavedEveryFifthDelta ==
    chat.pc = "streaming" =>
        Cardinality(DiskWrites(chat.access)) = chat.n \div SAVE_EVERY_N_CHUNKS

\* The turns of the session the request works on.
Turns == IF chat.sid \in DOMAIN sessions THEN sessions[chat.sid] ELSE <<>>

RECURSIVE DeltasUpTo(_)
DeltasUpTo(n) == IF n = 0 THEN <<>> ELSE DeltasUpTo(n - 1) \o DeltaText(n)

\* C31: a streamed request appends one user turn and one empty assistant
\* turn when it starts, a text delta changes only the last turn, by adding
\* the delta at its end, the end of the stream changes no turn, and while the
\* response is streamed the last turn is the assistant's and its text is the
\* deltas yielded so far, in order.
C31_StreamGrowsLastTurn ==
    /\ [](chat.pc = "streaming" =>
            /\ Len(Turns) >= 2
            /\ Turns[Len(Turns) - 1] = ChatMessage("user", <<"m">>)
            /\ Turns[Len(Turns)] = ChatMessage("assistant", DeltasUpTo(chat.n)))
    /\ [][/\ (chat.pc = "process" /\ chat.pc' = "streaming") =>
               Turns' = Turns \o <<ChatMessage("user", <<"m">>),
                                 ChatMessage("assistant", <<>>)>>
          /\ (chat.pc = "streaming" /\ chat.pc' = "streaming") =>
               /\ Len(Turns') = Len(Turns)
               /\ \A i \in 1..(Len(Turns) - 1) : Turns'[i] = Turns[i]
               /\ Turns'[Len(Turns)].content =
                     Turns[Len(Turns)].content \o DeltaText(chat.n')
          /\ (chat.pc = "streaming" /\ chat.pc' = "idle") => Turns' = Turns]_vars

\* C31 witness: the second streamed request on a session has yielded two
\* deltas; the session holds the two turns of the first request before it.
C31_Witness ==
    /\ chat.pc = "streaming"
    /\ chat.n = 2
    /\ Len(Turns) = 4
    /\ Turns[4].content = <<"d1", "d2">>

-----------------------------------------------------------------------------
(* The waits of with_retry.                                                *)

RECURSIVE Pow2(_)
Pow2(n) == IF n = 0 THEN 1 ELSE 2 * Pow2(n - 1)

\* The calls of the frame that raised.
FailedCalls == {k \in 1..Len(retry.calls) : ~retry.calls[k].ok}

\* C32: with_retry waits only between attempts.  The k-th wait follows the
\* k-th failed attempt, k is below max_retries and the wait lasts
\* initial_delay * 2^(k-1); there are as many waits as attempts before the
\* one being made (no wait before the first attempt), and a frame that has
\* returned or raised has one wait less than attempts (no wait after a
\* success or after the final failed attempt).
C32_BackoffBetweenAttempts ==
    retry.pc # "idle" =>
        /\ \A k \in 1..Len(retry.sleeps) :
             /\ k < retry.max_retries
             /\ k \in FailedCalls
             /\ retry.sleeps[k] = retry.initial_delay * Pow2(k - 1)
        /\ retry.pc = "call" => Len(retry.sleeps) = Len(retry.calls)
        /\ retry.pc = "sleep" => Len(retry.sleeps) = Len(retry.calls) - 1
        /\ retry.pc = "returned" =>
             /\ Len(retry.sleeps) = Len(retry.calls) - 1
             /\ FailedCalls = 1..Len(retry.sleeps)
        /\ retry.pc = "raised" =>
             /\ Len(retry.calls) = retry.max_retries
             /\ Len(retry.sleeps) = retry.max_retries - 1

\* Three attempts failed and a fourth is being made after waits of 500,
\* 1000 and 2000 ms.
C32_Witness ==
    /\ retry.pc = "call"
    /\ retry.initial_delay = 500
    /\ retry.sleeps = <<500, 1000, 2000>>

\* All four attempts failed: three waits, none after the last attempt.
C32_WitnessRaised ==
    /\ retry.pc = "raised"
    /\ retry.max_retries = 4
    /\ retry.sleeps = <<1000, 2000, 4000>>

-----------------------------------------------------------------------------
(* The provider calls of one whole-response call.                          *)

\* The positions of seq that hold x.
Positions(seq, x) == {k \in 1..Len(seq) : seq[k] = x}

\* seq never goes down.
NonDecreasing(seq) == \A k \in 1..(Len(seq) - 1) : seq[k] <= seq[k + 1]

\* C33: in one whole-response call the provider call of each credential is
\* made at most twice, those of credential i before those of credential
\* i + 1, a call returns as soon as an attempt succeeds, and when every
\* attempt has failed (the call raised) exactly 2N provider calls were made.
C33_ProviderCalls ==
    /\ \A i \in 0..(NumKeys - 1) :
         Cardinality(Positions(invoke.provider_calls, i)) <= INVOKE_MAX_RETRIES
    /\ NonDecreasing(invoke.provider_calls)
    /\ Len(invoke.provider_calls) <= INVOKE_MAX_RETRIES * NumKeys
    /\ invoke.pc = "returned" =>
         /\ invoke.provider_calls # <<>>
         /\ provider[invoke.provider_calls[Len(invoke.provider_calls)] + 1] = "ok"
    /\ invoke.pc = "raised" =>
         Len(invoke.provider_calls) = INVOKE_MAX_RETRIES * NumKeys

\* What does hold: _invoke_with_key itself is called twice per credential, in
\* the order of the credentials.
RetriedCallableCalls ==
    /\ \A i \in 0..(NumKeys - 1) :
         Cardinality(Positions(invoke.attempts, i)) <= INVOKE_MAX_RETRIES
    /\ NonDecreasing(invoke.attempts)
    /\ invoke.pc = "raised" =>
         Len(invoke.attempts) = INVOKE_MAX_RETRIES * NumKeys
    /\ invoke.provider_calls = <<>>

-----------------------------------------------------------------------------
(* Termination of the final loop.                                          *)

\* A turn of the final loop.
FlushTurn == pc = "flushing" /\ flush_i' = flush_i + 1

\* C34: once the upstream is exhausted the stream reaches its terminal done
\* event, whatever the jobs do.  The final loop takes the queued jobs in
\* order, one per turn; a job that is not done with its audio (failed, or
\* still pending at the timeout) adds no event and the loop goes on.
C34_FlushTerminates ==
    /\ (upstream.state = "exhausted") ~>
          (pc = "done" /\ events[Len(events)] = TerminalDone(SESSION))
    /\ [][FlushTurn =>
            LET j == audio_queue[flush_i]
            IN /\ pc' = "flushing"
               /\ audio_queue' = audio_queue
               /\ events' = IF jobs[j].st = "ok"
                             THEN Append(events, AudioEvent(j, jobs[j].text))
                             ELSE events]_vars

\* A finished stream in whose final loop a job timed out, a later one had
\* failed, and a still later one gave its audio.
C34_Witness ==
    /\ pc = "done"
    /\ events[Len(events)] = TerminalDone(SESSION)
    /\ \E a, b, c \in 1..Len(audio_queue) :
         /\ a < b /\ b < c
         /\ jobs[audio_queue[a]].st = "pending"
         /\ jobs[audio_queue[b]].st = "failed"
         /\ jobs[audio_queue[c]].fate = "emitted"

-----------------------------------------------------------------------------
(* The credentials behind the deltas of one _stream_llm call.              *)

\* C35: all the deltas one _stream_llm call yields come from the stream of
\* one credential, so the text of a completed stream is the output of
\* exactly one credential.
C35_OneCredentialPerStream ==
    \A x, y \in 1..Len(sllm.yielded) :
        sllm.yielded[x].cred = sllm.yielded[y].cred

-----------------------------------------------------------------------------
(* The files of distinct sessions (specification SpecChat).                *)

\* get_or_create_session has just installed the session of the request from
\* its file.
LoadedFromDisk ==
    /\ chat.pc = "process"
    /\ SafeSessionId(chat.sid) \in DOMAIN disk
    /\ \E a \in 1..Len(chat.access) :
         chat.access[a] = Access("disk_read", SafeSessionId(chat.sid))

\* C37: sessions are isolated by id on disk: the turns a session is loaded
\* with were saved under that same id, and a save of one session never
\* replaces the file of another.
C37_SessionsIsolated ==
    /\ LoadedFromDisk => disk[SafeSessionId(chat.sid)].session_id = chat.sid
    /\ \A x \in DOMAIN sessions : \A y \in DOMAIN sessions :
         (x # y /\ sessions[x] # <<>> /\ sessions[y] # <<>>) =>
            SaveFileName(x) # SaveFileName(y)

-----------------------------------------------------------------------------
(* The minimum-word check of the coordinator.                              *)

\* C38: the coordinator's minimum-word check discards nothing.  Between two
\* deltas, once a sentence has been submitted (is_first is cleared) there is
\* a held sentence; and no delta makes the loop take its "continue".
C38_NoSentenceSkipped ==
    /\ []((pc = "streaming" /\ ~is_first) => held # <<>>)
    /\ [][DeltaStep =>
            Feed(buffer, held, is_first, deltas'[Len(deltas')]).skipped = <<>>]_vars

\* A sentence has been submitted, and the held sentence has taken in a short
\* sentence that followed it.
C38_Witness ==
    /\ pc = "streaming"
    /\ ~is_first
    /\ Len(jobs) >= 1
    /\ \E i \in 1..(Len(held) - 1) : held[i].k = "."

\* The one submission of a stream that ends with nothing held: the rest of
\* the buffer.
FlushedRemainderOnly ==
    /\ pc \in {"flushing", "done"}
    /\ upstream.state = "exhausted"
    /\ held = <<>>
    /\ Len(jobs) = 1
    /\ jobs[1].text = Strip(buffer)

\* C39: every text submitted for speech after the first has at least
\* MIN_WORDS words, while streaming and at the flush; the first has at least
\* MIN_WORDS_FIRST words unless it is the remainder flushed at the end of a
\* stream that held nothing.
C39_SubmittedWordCounts ==
    \A j \in 1..Len(jobs) :
        IF j = 1
        THEN WordCount(jobs[j].text) >= MIN_WORDS_FIRST \/ FlushedRemainderOnly
        ELSE WordCount(jobs[j].text) >= MIN_WORDS

\* A first submission of two words, a later one made while streaming and a
\* last one made by the flush.
C39_Witness ==
    /\ pc = "done"
    /\ upstream.state = "exhausted"
    /\ Len(jobs) >= 3
    /\ WordCount(jobs[1].text) = MIN_WORDS_FIRST
    /\ held = jobs[Len(jobs) - 1].text
    /\ jobs[Len(jobs)].text = Strip(buffer)

\* A stream of one word, flushed as its only submission.
C39_WitnessRemainder ==
    /\ FlushedRemainderOnly
    /\ WordCount(jobs[1].text) = 1

-----------------------------------------------------------------------------
(* Two streams on one session (specification SpecConc).                    *)

RECURSIVE OwnDeltas(_, _)
OwnDeltas(r, n) ==
    IF n = 0 THEN <<>> ELSE OwnDeltas(r, n - 1) \o StreamDeltaText(r, n)

====
